---- MODULE Spec2Model ----
(***************************************************************************)
(* Client-side orchestration of the AI-Calculator web application:         *)
(* session handling (sign-in page, dashboard, calculator page), the input  *)
(* mode controller, the solve orchestrator, the save of calculations and   *)
(* the dashboard list with its sort and delete.                            *)
(*                                                                         *)
(* Strings whose characters matter are sequences of one-character strings. *)
(* The remote server is the environment: every response it can give is a   *)
(* nondeterministic choice.  Assigning window.location.href starts a       *)
(* navigation: the user no longer acts on the page, while its timers and   *)
(* pending fetches still run until the next document replaces it.          *)
(***************************************************************************)
EXTENDS Integers, Sequences, FiniteSets, TLC

None == "null"
Undefined == "undefined"
NoValue == "-"

(***************************************************************************)
(* Bounds of the model.                                                    *)
(***************************************************************************)
MaxAuthRequests == 2
MaxSolves == 1
MaxInits == 1
MaxListeners == 1
MaxManualSaves == 1

Tokens == {"t1", "t2"}
Users == {"u1", "u2"}
ErrorTexts == {"e1"}

(***************************************************************************)
(* Session state: browser storage, cookie, page, user-auth.js globals.     *)
(***************************************************************************)
VARIABLES
    page,               \* document shown: "auth", "dashboard", "calculator"
    pageScript,         \* which copy of the page's script the document runs
    redirect,           \* value assigned to window.location.href, or None
    localStorage,       \* [authToken, currentUser]: stored strings or None
    cookie,             \* the authToken cookie
    isAuthenticated,    \* user-auth.js global
    currentUser,        \* user-auth.js global
    authToken,          \* user-auth.js global
    winIsAuthenticated, \* window.isAuthenticated: "undefined", "true", "false"
    winAuthToken,       \* window.authToken
    isLogin,            \* sign-in page: form mode
    authRequests,       \* sign-in page: auth requests in flight
    formErrors,         \* sign-in page: text of each error element of the form
    loggedOut,          \* history: logout() ran and no session was stored since
    lastEvent,          \* history: the handler that ran last, with its inputs
    iinkLoaded,         \* calculator: the recogniser library window.iink is present
    currentMode,        \* Calculator.currentMode
    mainContent,        \* which mode's template #main-content holds
    activeButtons,      \* the .mode-btn elements that carry the class active
    draw,               \* DrawMode: editor loading and the current drawing UI
    text,               \* the current text UI: textarea, preview, solve button
    currentLatex,       \* TextMode.currentLatex
    staleInput,         \* value of the last detached textarea with non-blank text
    operationType,      \* value of the select #operation-type
    solves,             \* solve requests sent by this page, in order
    solutionArea,       \* content of .solution-container
    timers,             \* solve requests whose 1000 ms auto-save timer is pending
    saves,              \* save requests in flight
    dialogs,            \* the prompts and alerts opened by the handler that ran last
    posted,             \* the save requests sent by the handler that ran last
    saveButton,         \* label of #save-calculation and its pending reset timers
    dash                \* dashboard: stored calculations, list shown, requests in flight

sessionVars == <<localStorage, cookie>>
globalVars == <<isAuthenticated, currentUser, authToken, winIsAuthenticated, winAuthToken>>
authPageVars == <<isLogin, authRequests, formErrors>>
calcVars == <<iinkLoaded, currentMode, mainContent, activeButtons, draw, text,
              currentLatex, staleInput, operationType, solves, solutionArea, timers,
              saves, dialogs, posted, saveButton>>
vars == <<page, pageScript, redirect, localStorage, cookie, isAuthenticated,
          currentUser, authToken, winIsAuthenticated, winAuthToken, isLogin,
          authRequests, formErrors, loggedOut, lastEvent, iinkLoaded, currentMode,
          mainContent, activeButtons, draw, text, currentLatex, staleInput,
          operationType, solves, solutionArea, timers, saves, dialogs, posted,
          saveButton, dash>>

(***************************************************************************)
(* Cookies.                                                                *)
(***************************************************************************)
MsPerDay == 24 * 60 * 60 * 1000
CookieDays == 7

NoCookie == [present |-> FALSE, value |-> "", expiresInMs |-> 0, path |-> "/"]

\* setCookie(name, value, days): value || "", expiry days from now, path=/
setCookie(value, days) ==
    [present |-> TRUE,
     value |-> IF value \in {None, Undefined} THEN "" ELSE value,
     expiresInMs |-> days * MsPerDay,
     path |-> "/"]

\* getCookie(name): the value of the cookie, null when there is none
getCookie(ck) == IF ck.present THEN ck.value ELSE None

\* document.cookie = "authToken=; expires=Thu, 01 Jan 1970 ...; path=/;"
clearCookie == NoCookie

\* JavaScript truthiness of a string-or-null value
Truthy(v) == v \notin {None, ""}

(***************************************************************************)
(* JSON.stringify / JSON.parse of the user profile.                        *)
(***************************************************************************)
JSONstringify(u) ==
    CASE u = "u1" -> "{\"username\":\"u1\"}"
      [] u = "u2" -> "{\"username\":\"u2\"}"
      [] OTHER -> Undefined

SyntaxError == "SyntaxError"

JSONparse(s) ==
    CASE s = "{\"username\":\"u1\"}" -> "u1"
      [] s = "{\"username\":\"u2\"}" -> "u2"
      [] OTHER -> SyntaxError

\* localStorage.setItem stores String(value): a string as it is, the values
\* undefined and null as the strings "undefined" and "null"
ToStorage(v) ==
    CASE v = Undefined -> "undefined"
      [] v = None -> "null"
      [] OTHER -> v

EmptyStorage == [authToken |-> None, currentUser |-> None]

(***************************************************************************)
(* Sign-in page: form fields and their validation.                         *)
(***************************************************************************)
Whitespace == {" ", "\t", "\n"}
UpperCase == {"A", "B", "C", "D", "E", "F", "G", "H", "I", "J", "K", "L", "M",
              "N", "O", "P", "Q", "R", "S", "T", "U", "V", "W", "X", "Y", "Z"}
LowerCase == {"a", "b", "c", "d", "e", "f", "g", "h", "i", "j", "k", "l", "m",
              "n", "o", "p", "q", "r", "s", "t", "u", "v", "w", "x", "y", "z"}
Digits == {"0", "1", "2", "3", "4", "5", "6", "7", "8", "9"}
SpecialChars == {"!", "@", "#", "$", "%", "^", "&", "*", "(", ")", ",", ".",
                 "?", "\"", ":", "{", "}", "|", "<", ">"}

Has(s, class) == \E i \in 1..Len(s) : s[i] \in class

\* !value.trim()
IsBlank(s) == \A i \in 1..Len(s) : s[i] \in Whitespace

\* /^[^\s@]+@[^\s@]+\.[^\s@]+$/
validateEmail(email) ==
    /\ ~Has(email, Whitespace)
    /\ Cardinality({i \in 1..Len(email) : email[i] = "@"}) = 1
    /\ \E a \in 2..Len(email) :
          /\ email[a] = "@"
          /\ \E d \in (a + 2)..(Len(email) - 1) : email[d] = "."

MinPasswordLength == 8

\* validatePassword(password): the set of the rules the password breaks
PasswordRuleErrors(password) ==
    {e \in {"at least 8 characters", "an uppercase letter", "a lowercase letter",
            "a number", "a special character"} :
        \/ e = "at least 8 characters" /\ Len(password) < MinPasswordLength
        \/ e = "an uppercase letter" /\ ~Has(password, UpperCase)
        \/ e = "a lowercase letter" /\ ~Has(password, LowerCase)
        \/ e = "a number" /\ ~Has(password, Digits)
        \/ e = "a special character" /\ ~Has(password, SpecialChars)}

\* variant: no password rule is applied in either mode
validatePasswordNoRules(script, login, password) == {}

\* auth.js applies the rules to a registration only; auth.html always computes
\* them and uses them for a registration only
validatePassword(script, login, password) ==
    IF script = "auth.js" /\ login THEN {} ELSE PasswordRuleErrors(password)

StrongPassword == <<"A", "a", "1", "!", "a", "a", "a", "a">>
FieldNames == {<<>>, <<" ">>, <<"a">>}
FieldEmails == {<<>>, <<"a", "@", "b">>, <<"a", "@", "b", ".", "c">>}
FieldUsernames == {<<>>, <<"a">>}
FieldPasswords == {<<>>, <<" ">>, <<"A", "a", "1", "!">>, StrongPassword}
FormData == [name : FieldNames, email : FieldEmails,
             username : FieldUsernames, password : FieldPasswords]

\* the forms that differ in a field the submit handler reads: in Sign In mode
\* it reads username and password, in Create Account mode name, email and
\* password
FormsRead(login) ==
    {fd \in FormData : IF login THEN fd.name = <<>> /\ fd.email = <<>>
                                ELSE fd.username = <<>>}

ErrorElements == {"name", "email", "username", "password", "general"}
NoErrors == [e \in ErrorElements |-> ""]

\* clearErrors() followed by the validation part of the submit handler
ValidationErrors(script, login, fd) ==
    [e \in ErrorElements |->
        CASE e = "name" /\ ~login /\ IsBlank(fd.name) ->
                 IF script = "auth.js" THEN "Name is required" ELSE "Username is required"
          [] e = "email" /\ ~login /\ ~validateEmail(fd.email) ->
                 "Please enter a valid email address"
          [] e = "username" /\ login /\ IsBlank(fd.username) -> "Username is required"
          [] e = "password" /\ ~login /\ validatePassword(script, login, fd.password) # {} ->
                 "Password must contain the missing items"
          [] e = "password" /\ login /\ script = "auth.html" /\ IsBlank(fd.password) ->
                 "Password is required"
          [] OTHER -> ""]

\* the request the submit handler builds
AuthRequest(login, fd) ==
    IF login
    THEN [endpoint |-> "/api/auth/login", username |-> fd.username,
          email |-> <<>>, password |-> fd.password]
    ELSE [endpoint |-> "/api/auth/register", username |-> fd.name,
          email |-> fd.email, password |-> fd.password]

(***************************************************************************)
(* Responses of the auth endpoints (POST /api/auth/login -> {token,user},  *)
(* POST /api/auth/register -> {success}); an error body carries error?.    *)
(***************************************************************************)
AuthResponses(endpoint) ==
    (IF endpoint = "/api/auth/login"
     THEN [status : {"2xx"}, body : {"json"}, token : Tokens, user : Users,
           error : {Undefined}]
     ELSE [status : {"2xx"}, body : {"json"}, token : {Undefined}, user : {Undefined},
           error : {Undefined}])
    \cup [status : {"non2xx"}, body : {"json"}, token : {Undefined}, user : {Undefined},
          error : ErrorTexts \cup {Undefined}]
    \cup [status : {"2xx", "non2xx"}, body : {"unparsable"}, token : {Undefined},
          user : {Undefined}, error : {Undefined}]
    \cup [status : {"network-error"}, body : {"none"}, token : {Undefined},
          user : {Undefined}, error : {Undefined}]

\* the fetch and response.json() of the submit handler complete without throwing
Parsed(resp) == resp.status # "network-error" /\ resp.body = "json"
Ok(resp) == resp.status = "2xx"

\* failure branches that never read data.error
FailureMessageGeneric(script, login, resp) ==
    IF ~(resp.status # "network-error" /\ resp.body = "json")
    THEN "An error occurred. Please try again."
    ELSE IF script = "auth.js"
         THEN (IF login THEN "Login failed" ELSE "Registration failed")
         ELSE (IF login THEN "Login failed. Please check your credentials."
                        ELSE "Registration failed.")

\* the message of the failure branches of the submit handler
FailureMessage(script, login, resp) ==
    IF ~Parsed(resp) THEN "An error occurred. Please try again."
    ELSE IF resp.error # Undefined THEN resp.error
    ELSE IF script = "auth.js"
         THEN (IF login THEN "Login failed" ELSE "Registration failed")
         ELSE (IF login THEN "Login failed. Please check your credentials."
                        ELSE "Registration failed.")

\* the element the failure message is written to
FailureElement(script, login) ==
    IF script = "auth.html" THEN "general"
    ELSE IF login THEN "username" ELSE "email"

(***************************************************************************)
(* text-mode.js: processInputToLatex, one operator per replace() call.     *)
(***************************************************************************)
Letters == UpperCase \cup LowerCase
AlphaNum == Letters \cup Digits
OperationTypes == {"solve", "laplace", "fourier"}

SubStr(s, from, to) == IF from > to THEN <<>> ELSE SubSeq(s, from, to)

\* the end of the longest run of characters of class that starts at i
\* (i - 1 when s[i] is not of the class)
RECURSIVE RunEnd(_, _, _)
RunEnd(s, i, class) ==
    IF i <= Len(s) /\ s[i] \in class THEN RunEnd(s, i + 1, class) ELSE i - 1

\* the first position >= i holding character c, 0 when there is none
RECURSIVE IndexFrom(_, _, _)
IndexFrom(s, i, c) ==
    IF i > Len(s) THEN 0
    ELSE IF s[i] = c THEN i ELSE IndexFrom(s, i + 1, c)

\* the last position in from..to holding character c, 0 when there is none
RECURSIVE LastIndexIn(_, _, _, _)
LastIndexIn(s, from, to, c) ==
    IF to < from THEN 0
    ELSE IF s[to] = c THEN to ELSE LastIndexIn(s, from, to - 1, c)

\* /([0-9a-zA-Z\)}])(\s*)\*(\s*)([0-9a-zA-Z\({])/g -> '$1$2$3$4'
RECURSIVE RemoveMultiplication(_, _)
RemoveMultiplication(s, i) ==
    IF i > Len(s) THEN <<>>
    ELSE LET star == RunEnd(s, i + 1, Whitespace) + 1
             last == RunEnd(s, star + 1, Whitespace) + 1
         IN  IF /\ s[i] \in AlphaNum \cup {")", "}"}
                /\ star <= Len(s) /\ s[star] = "*"
                /\ last <= Len(s) /\ s[last] \in AlphaNum \cup {"(", "{"}
             THEN SubStr(s, i, star - 1) \o SubStr(s, star + 1, last)
                     \o RemoveMultiplication(s, last + 1)
             ELSE <<s[i]>> \o RemoveMultiplication(s, i + 1)

\* /([0-9])([a-zA-Z])/g -> '$1 $2'
RECURSIVE SpaceAfterNumber(_, _)
SpaceAfterNumber(s, i) ==
    IF i > Len(s) THEN <<>>
    ELSE IF s[i] \in Digits /\ i + 1 <= Len(s) /\ s[i + 1] \in Letters
         THEN <<s[i], " ", s[i + 1]>> \o SpaceAfterNumber(s, i + 2)
         ELSE <<s[i]>> \o SpaceAfterNumber(s, i + 1)

\* /([a-zA-Z0-9\}])([a-zA-Z]+\^)/g -> '$1 $2'
RECURSIVE SpaceBeforePower(_, _)
SpaceBeforePower(s, i) ==
    IF i > Len(s) THEN <<>>
    ELSE LET run == RunEnd(s, i + 1, Letters)
         IN  IF /\ s[i] \in AlphaNum \cup {"}"}
                /\ run >= i + 1
                /\ run + 1 <= Len(s) /\ s[run + 1] = "^"
             THEN <<s[i], " ">> \o SubStr(s, i + 1, run + 1)
                     \o SpaceBeforePower(s, run + 2)
             ELSE <<s[i]>> \o SpaceBeforePower(s, i + 1)

\* /\^(-?\(.*?\)|\([^)]*\))/g with the callback
\* match => '^{' + match.substring(2, match.length - 1) + '}'
RECURSIVE BraceParenExponent(_, _)
BraceParenExponent(s, i) ==
    IF i > Len(s) THEN <<>>
    ELSE LET minus == i + 1 <= Len(s) /\ s[i + 1] = "-"
             open == IF minus THEN i + 2 ELSE i + 1
             close == IndexFrom(s, open + 1, ")")
             matches ==
                /\ s[i] = "^"
                /\ open <= Len(s) /\ s[open] = "("
                /\ close # 0
                /\ minus => \A k \in (open + 1)..(close - 1) : s[k] # "\n"
         IN  IF matches
             THEN <<"^", "{">> \o SubStr(s, i + 2, close - 1) \o <<"}">>
                     \o BraceParenExponent(s, close + 1)
             ELSE <<s[i]>> \o BraceParenExponent(s, i + 1)

\* /\^-([a-zA-Z0-9]+)/g -> '^{-$1}'
RECURSIVE BraceNegativeExponent(_, _)
BraceNegativeExponent(s, i) ==
    IF i > Len(s) THEN <<>>
    ELSE LET run == RunEnd(s, i + 2, AlphaNum)
         IN  IF /\ s[i] = "^"
                /\ i + 1 <= Len(s) /\ s[i + 1] = "-"
                /\ run >= i + 2
             THEN <<"^", "{", "-">> \o SubStr(s, i + 2, run) \o <<"}">>
                     \o BraceNegativeExponent(s, run + 1)
             ELSE <<s[i]>> \o BraceNegativeExponent(s, i + 1)

\* /\^([a-zA-Z0-9]+)/g -> '^{$1}'
RECURSIVE BraceExponent(_, _)
BraceExponent(s, i) ==
    IF i > Len(s) THEN <<>>
    ELSE LET run == RunEnd(s, i + 1, AlphaNum)
         IN  IF s[i] = "^" /\ run >= i + 1
             THEN <<"^", "{">> \o SubStr(s, i + 1, run) \o <<"}">>
                     \o BraceExponent(s, run + 1)
             ELSE <<s[i]>> \o BraceExponent(s, i + 1)

\* latex.match(/(.*)\[(.*),(.*)\]$/) and the template
\* `${expr} \\text{ on } [${lowerBound},${upperBound}]`
DomainClause(s) ==
    LET start == LastIndexIn(s, 1, Len(s), "\n") + 1
        \* the last '[' that has a ',' between it and the final ']'
        bracket == IF Len(s) = 0 \/ s[Len(s)] # "]" THEN 0
                   ELSE LET comma == LastIndexIn(s, start, Len(s) - 1, ",")
                        IN  IF comma = 0 THEN 0
                            ELSE LastIndexIn(s, start, comma - 1, "[")
        comma == LastIndexIn(s, bracket + 1, Len(s) - 1, ",")
    IN  IF bracket = 0 THEN s
        ELSE SubStr(s, start, bracket - 1)
                \o <<" ", "\\", "t", "e", "x", "t", "{", " ", "o", "n", " ", "}", " ", "[">>
                \o SubStr(s, bracket + 1, comma - 1) \o <<",">>
                \o SubStr(s, comma + 1, Len(s) - 1) \o <<"]">>

\* variant: the domain annotation is extracted under every operation type
processInputToLatexAnyOperation(input, opType) ==
    DomainClause(BraceExponent(BraceNegativeExponent(BraceParenExponent(
        SpaceBeforePower(SpaceAfterNumber(
            RemoveMultiplication(input, 1), 1), 1), 1), 1), 1))

processInputToLatex(input, opType) ==
    LET latex == BraceExponent(BraceNegativeExponent(BraceParenExponent(
                    SpaceBeforePower(SpaceAfterNumber(
                        RemoveMultiplication(input, 1), 1), 1), 1), 1), 1)
    IN  IF opType = "fourier" THEN DomainClause(latex) ELSE latex

(***************************************************************************)
(* draw-mode.js: cleanLatex and the operation type the solve click derives.*)
(***************************************************************************)
\* s has the characters of pat at position i
MatchesAt(s, i, pat) ==
    /\ i + Len(pat) - 1 <= Len(s)
    /\ \A k \in 1..Len(pat) : s[i + k - 1] = pat[k]

\* String.prototype.includes
Includes(s, pat) == \E i \in 1..(Len(s) + 1) : MatchesAt(s, i, pat)

\* String.prototype.replace(pattern, '') with a string pattern: first occurrence
RemoveFirst(s, pat) ==
    IF ~Includes(s, pat) THEN s
    ELSE LET i == CHOOSE k \in 1..Len(s) :
                     /\ MatchesAt(s, k, pat)
                     /\ \A j \in 1..(k - 1) : ~MatchesAt(s, j, pat)
         IN  SubStr(s, 1, i - 1) \o SubStr(s, i + Len(pat), Len(s))

\* replace(new RegExp("(align.{1})", "g"), "aligned")
RECURSIVE RenameAlign(_, _)
RenameAlign(s, i) ==
    IF i > Len(s) THEN <<>>
    ELSE IF /\ MatchesAt(s, i, <<"a", "l", "i", "g", "n">>)
            /\ i + 5 <= Len(s) /\ s[i + 5] # "\n"
         THEN <<"a", "l", "i", "g", "n", "e", "d">> \o RenameAlign(s, i + 6)
         ELSE <<s[i]>> \o RenameAlign(s, i + 1)

BeginAlignStar == <<"\\", "b", "e", "g", "i", "n", "{", "a", "l", "i", "g", "n", "*", "}">>
EndAlignStar == <<"\\", "e", "n", "d", "{", "a", "l", "i", "g", "n", "*", "}">>
BeginAligned == <<"\\", "b", "e", "g", "i", "n", "{", "a", "l", "i", "g", "n", "e", "d", "}">>
EndAligned == <<"\\", "e", "n", "d", "{", "a", "l", "i", "g", "n", "e", "d", "}">>

cleanLatex(latexExport) ==
    IF Includes(latexExport, <<"\\", "\\">>)
    THEN RenameAlign(RemoveFirst(RemoveFirst(
             BeginAlignStar \o latexExport \o EndAlignStar, BeginAligned), EndAligned), 1)
    ELSE RenameAlign(latexExport, 1)

\* the operation type of the solve click: #topic is not in the page, so the
\* type is detected from the markup
DetectOperationType(latex) ==
    IF \/ Includes(latex, <<"\\", "m", "a", "t", "h", "c", "a", "l", "{", "L", "}">>)
       \/ Includes(latex, <<"l", "a", "p", "l", "a", "c", "e">>)
    THEN "laplace"
    ELSE IF \/ Includes(latex, <<"\\", "s", "u", "m">>)
            \/ Includes(latex, <<"f", "o", "u", "r", "i", "e", "r">>)
    THEN "fourier"
    ELSE IF \/ Includes(latex, <<"s", "i", "n">>)
            \/ Includes(latex, <<"c", "o", "s">>)
            \/ Includes(latex, <<"t", ")">>)
    THEN "laplace"
    ELSE "solve"

(***************************************************************************)
(* Solve responses and displaySolution (the same code in draw-mode.js and  *)
(* text-mode.js up to the automatic save).                                 *)
(***************************************************************************)
\* the solution field of a response: missing, a string or a list of strings
Missing == [kind |-> "missing", items |-> <<>>]
Str(s) == [kind |-> "string", items |-> <<s>>]
Arr(items) == [kind |-> "array", items |-> items]

RECURSIVE Join(_, _)
Join(items, sep) ==
    IF Len(items) = 0 THEN <<>>
    ELSE IF Len(items) = 1 THEN items[1]
    ELSE items[1] \o sep \o Join(Tail(items), sep)

SolutionSeparator == <<",", " ", "\\", ";", " ">>
XEquals == <<"x", " ", "=", " ">>

\* solution.solution.every(sol => sol.includes('='))
everyIncludesEquals(items) == \A i \in 1..Len(items) : Includes(items[i], <<"=">>)

\* the markup displaySolution hands to katex.render for a response without
\* error field; defined is FALSE when that argument is undefined
solutionsHtml(solution) ==
    IF solution.kind = "array" /\ Len(solution.items) > 1
    THEN [defined |-> TRUE,
          text |-> IF everyIncludesEquals(solution.items)
                   THEN Join(solution.items, SolutionSeparator)
                   ELSE XEquals \o Join(solution.items, SolutionSeparator \o XEquals)]
    ELSE IF solution.kind = "missing" \/ Len(solution.items) = 0
    THEN [defined |-> FALSE, text |-> <<>>]
    ELSE [defined |-> TRUE, text |-> solution.items[1]]

\* JavaScript truthiness of the solution field ([] is truthy, '' is not)
SolutionTruthy(solution) ==
    \/ solution.kind = "array"
    \/ solution.kind = "string" /\ solution.items[1] # <<>>

\* Array.isArray(s) ? s.join(', ') : s
solutionText(solution) ==
    IF solution.kind = "array" THEN Join(solution.items, <<",", " ">>)
    ELSE solution.items[1]

\* operationType.charAt(0).toUpperCase() + operationType.slice(1)
Capitalize(opType) ==
    CASE opType = "solve" -> "Solve"
      [] opType = "laplace" -> "Laplace"
      [] opType = "fourier" -> "Fourier"

\* `${Capitalize(operationType)} - ${new Date().toLocaleString()}`
generatedTitle(opType) ==
    [kind |-> "generated", prefix |-> Capitalize(opType), separator |-> " - ",
     timestamp |-> "now"]

NoTitle == [kind |-> "null", prefix |-> "", separator |-> "", timestamp |-> ""]
TypedTitle == [kind |-> "typed", prefix |-> "", separator |-> "", timestamp |-> ""]

\* the content of .solution-container: header, result and the request shown
EmptyArea == [header |-> "", kind |-> "empty", text |-> <<>>, message |-> "", req |-> 0]

\* katex.render(tex, element) throws a ParseError on markup it cannot parse;
\* of the markup it rejects the model knows unbalanced braces and a trailing
\* ^ or _
RECURSIVE BraceDepth(_, _)
BraceDepth(tex, depth) ==
    IF tex = <<>> THEN depth
    ELSE IF depth < 0 THEN depth
    ELSE BraceDepth(Tail(tex), depth + (IF Head(tex) = "{" THEN 1
                                        ELSE IF Head(tex) = "}" THEN -1 ELSE 0))

katexRenderThrows(tex) ==
    \/ BraceDepth(tex, 0) # 0
    \/ tex # <<>> /\ tex[Len(tex)] \in {"^", "_"}

\* displaySolution(data): what it leaves in .solution-container
displaySolution(data, req) ==
    IF data.error # Undefined
    THEN [header |-> "Solution", kind |-> "error-field", text |-> <<>>,
          message |-> data.error, req |-> req]
    ELSE LET html == solutionsHtml(data.solution)
         IN  [header |-> "Solution",
              kind |-> IF ~html.defined \/ katexRenderThrows(html.text) THEN "raw"
                       ELSE "katex",
              text |-> html.text, message |-> "", req |-> req]

\* the message of the Error thrown in the try block of the solve handlers
ThrownMessage(resp) ==
    CASE resp.status = "network-error" -> "Failed to fetch"
      [] resp.status = "non2xx" -> "Server responded with status: non2xx"
      [] OTHER -> "Unexpected token in JSON"

\* displayError(`Error: ${error.message}`)
displayError(errorMessage, req) ==
    [header |-> "Error", kind |-> "message", text |-> <<>>,
     message |-> errorMessage, req |-> req]

\* .solution-container.textContent.trim() is non-empty
AreaHasText(area) == area.header # ""

(***************************************************************************)
(* History record of the handler that ran last.                            *)
(***************************************************************************)
Event(op) ==
    [op |-> op, hadSession |-> FALSE, mode |-> NoValue, status |-> NoValue,
     body |-> NoValue, token |-> NoValue, user |-> NoValue, error |-> NoValue]

ResponseEvent(login, resp) ==
    [op |-> "authResponse", hadSession |-> FALSE,
     mode |-> IF login THEN "login" ELSE "register",
     status |-> resp.status, body |-> resp.body, token |-> resp.token,
     user |-> resp.user, error |-> resp.error]

\* the stored session the claims speak of: both keys present in browser storage
HasStoredSession(ls) == ls.authToken # None /\ ls.currentUser # None

SignInViews == {"/auth", "/login"}

(***************************************************************************)
(* user-auth.js                                                            *)
(***************************************************************************)
\* the element #user-display: neither index.html nor the dashboard page has it
userDisplayPresent == FALSE

\* updateAuthUI(): the value it assigns to window.location.href, if any
updateAuthUI(userDisplay, authenticated, user) ==
    IF userDisplay /\ ~(authenticated /\ user # None) THEN "/auth" ELSE None

\* logout() of user-auth.js: globals, storage and cookie after the call
logout ==
    [isAuthenticated |-> FALSE, currentUser |-> None, authToken |-> None,
     localStorage |-> EmptyStorage, cookie |-> clearCookie, redirect |-> "/auth"]

\* initAuth() of user-auth.js run on a fresh page with the given storage and
\* cookie: the globals, storage, cookie and redirect it leaves
initAuth(ls, ck) ==
    LET token == IF Truthy(ls.authToken) THEN ls.authToken ELSE getCookie(ck)
        userJson == ls.currentUser
    IN  IF Truthy(token) /\ Truthy(userJson)
        THEN IF JSONparse(userJson) # SyntaxError
             THEN [isAuthenticated |-> TRUE, currentUser |-> JSONparse(userJson),
                   authToken |-> token, winIsAuthenticated |-> "true",
                   winAuthToken |-> token, localStorage |-> ls,
                   cookie |-> setCookie(token, CookieDays),
                   redirect |-> updateAuthUI(userDisplayPresent, TRUE, JSONparse(userJson)),
                   loggedOut |-> FALSE]
             ELSE [isAuthenticated |-> logout.isAuthenticated,
                   currentUser |-> logout.currentUser,
                   authToken |-> logout.authToken, winIsAuthenticated |-> Undefined,
                   winAuthToken |-> Undefined, localStorage |-> logout.localStorage,
                   cookie |-> logout.cookie, redirect |-> logout.redirect,
                   loggedOut |-> TRUE]
        ELSE [isAuthenticated |-> FALSE, currentUser |-> None, authToken |-> token,
              winIsAuthenticated |-> "false", winAuthToken |-> None,
              localStorage |-> ls, cookie |-> ck,
              redirect |-> updateAuthUI(userDisplayPresent, FALSE, None),
              loggedOut |-> FALSE]

\* the globals of user-auth.js before initAuth() runs
FreshGlobals ==
    /\ isAuthenticated' = FALSE
    /\ currentUser' = None
    /\ authToken' = None
    /\ winIsAuthenticated' = Undefined
    /\ winAuthToken' = Undefined

FreshAuthPage ==
    /\ isLogin' = TRUE
    /\ authRequests' = {}
    /\ formErrors' = NoErrors

(***************************************************************************)
(* dashboard.js (two copies: frontend/scripts/dashboard.js and the later   *)
(* one with sorting and PDF export).  The dashboard page loads it after    *)
(* user-auth.js, so its initAuth and logout are the ones that run there.   *)
(***************************************************************************)
DashboardScripts == {"dashboard.js", "dashboard-v2.js"}

\* initAuth() of dashboard.js: the redirect it leaves
dashboardInitAuth(ls) ==
    IF Truthy(ls.authToken) /\ Truthy(ls.currentUser)
    THEN IF JSONparse(ls.currentUser) # SyntaxError THEN None ELSE "/login"
    ELSE "/login"

\* logout() of dashboard.js: the later copy clears the cookie, the first does not
dashboardLogoutCookie(script, ck) ==
    IF script = "dashboard-v2.js" THEN clearCookie ELSE ck

\* the calculations the server stores for the signed-in user at the start, in
\* the order GET /api/calculations lists them; created_at as a timestamp
Calculations ==
    <<[id |-> 1, created_at |-> 2, operation_type |-> "solve"],
      [id |-> 2, created_at |-> 1, operation_type |-> "laplace"],
      [id |-> 3, created_at |-> 3, operation_type |-> "laplace"]>>
CalculationIds == {Calculations[k].id : k \in DOMAIN Calculations}

\* the options of the select #sort-calculations
SortOptions == {"date-desc", "date-asc", "type"}

\* data.calculations of a successful list response while the server stores
\* the calculations with the ids in stored
calculationsOf(stored) ==
    LET Stored(c) == c.id \in stored IN SelectSeq(Calculations, Stored)

\* a.localeCompare(b) on operation types
localeCompare(a, b) ==
    LET rank(t) == CASE t = "fourier" -> 1 [] t = "laplace" -> 2 [] OTHER -> 3
    IN  IF rank(a) < rank(b) THEN -1 ELSE IF rank(a) > rank(b) THEN 1 ELSE 0

\* the comparator sortCalculations passes to Array.prototype.sort
compareCalculations(a, b, sortOption) ==
    CASE sortOption = "date-desc" -> b.created_at - a.created_at
      [] sortOption = "date-asc" -> a.created_at - b.created_at
      [] OTHER -> localeCompare(a.operation_type, b.operation_type)

\* Array.prototype.sort is stable: c goes before the first element that the
\* comparator puts after it
RECURSIVE insertSorted(_, _, _)
insertSorted(c, sorted, sortOption) ==
    IF sorted = <<>> THEN <<c>>
    ELSE IF compareCalculations(c, Head(sorted), sortOption) < 0
         THEN <<c>> \o sorted
         ELSE <<Head(sorted)>> \o insertSorted(c, Tail(sorted), sortOption)

RECURSIVE arraySort(_, _)
arraySort(list, sortOption) ==
    IF list = <<>> THEN <<>>
    ELSE insertSorted(list[Len(list)],
                      arraySort(SubSeq(list, 1, Len(list) - 1), sortOption),
                      sortOption)

\* variant: the date options exchanged
sortCalculationsDatesSwapped(calculations, sortOption) ==
    CASE sortOption = "date-desc" -> arraySort(calculations, "date-asc")
      [] sortOption = "date-asc" -> arraySort(calculations, "date-desc")
      [] sortOption = "type" -> arraySort(calculations, "type")
      [] OTHER -> calculations

\* sortCalculations(calculations, sortOption): a sorted copy
sortCalculations(calculations, sortOption) ==
    IF sortOption \in SortOptions THEN arraySort(calculations, sortOption)
    ELSE calculations

\* what the server stores before any delete, with the history of the deletes
ServerInit == [stored |-> CalculationIds, removed |-> {}, deletesSent |-> 0]

\* the PDF modal of the dashboard page as the HTML gives it: hidden, empty
\* #pdf-preview, #download-pdf without click handler.  opened is the
\* calculation convertToPDF was called for last, requested the calculation
\* whose PDF the handler that just ran has requested, downloaded the one whose
\* file it has handed to the browser (0: none)
NoPdf ==
    [modal |-> FALSE, preview |-> [kind |-> "empty", calculation |-> 0],
     onclick |-> 0, button |-> [label |-> "Download PDF", disabled |-> FALSE],
     details |-> {}, exports |-> 0, opened |-> 0, pdfFetches |-> {}, downloads |-> 0,
     labelTimers |-> {}, requested |-> 0, downloaded |-> 0]

\* no dashboard document is shown; the server keeps what it stores
NoDashboard(d) ==
    [stored |-> d.stored, removed |-> d.removed, deletesSent |-> d.deletesSent,
     sortValue |-> "date-desc", kind |-> "none", shown |-> <<>>, faded |-> {},
     total |-> 0, fetches |-> {}, sent |-> 0, deletes |-> {}, fadeTimers |-> 0,
     dialog |-> "", pdf |-> NoPdf]

\* loadSavedCalculations(authToken) up to its fetch: the later copy reads the
\* sort option before it sends the request, the first copy has none
loadSavedCalculations(d, script) ==
    [d EXCEPT !.sent = @ + 1,
              !.fetches = @ \cup
                 {[id |-> d.sent + 1,
                   sortValue |-> IF script = "dashboard-v2.js" THEN d.sortValue
                                 ELSE "received",
                   answer |-> "none", calculations |-> <<>>]}]

\* the dashboard document after DOMContentLoaded: user-auth.js and dashboard.js
\* each register a listener that calls the global initAuth, which is the one of
\* dashboard.js, so a stored session starts two list requests
dashboardLoad(d, ls, script) ==
    LET fresh == [NoDashboard(d) EXCEPT !.kind = "loading"]
    IN  IF dashboardInitAuth(ls) = None
        THEN loadSavedCalculations(loadSavedCalculations(fresh, script), script)
        ELSE fresh

\* the ids of the cards renderSavedCalculations writes
cardsOf(calculations) == [k \in DOMAIN calculations |-> calculations[k].id]

\* the continuation of loadSavedCalculations after await fetch, for a request
\* f that the server answered with a list, answered with an error, or that
\* failed without an answer
listResponse(d, f, script) ==
    LET sorted == IF script = "dashboard-v2.js"
                  THEN sortCalculations(f.calculations, f.sortValue)
                  ELSE f.calculations
    IN  CASE f.answer = "list" ->
               [d EXCEPT !.kind = IF Len(sorted) = 0 THEN "empty" ELSE "cards",
                         !.shown = cardsOf(sorted),
                         !.faded = {},
                         !.total = IF script = "dashboard-v2.js"
                                   THEN Len(f.calculations) ELSE @]
          [] f.answer = "error" ->
               [d EXCEPT !.kind = "Error loading calculations. Please try again.",
                         !.shown = <<>>, !.faded = {}]
          [] OTHER ->
               [d EXCEPT !.kind = "Error loading calculations. Please check your connection.",
                         !.shown = <<>>, !.faded = {}]

(***************************************************************************)
(* Calculator page: main.js (Calculator), draw-mode.js (DrawMode),         *)
(* text-mode.js (TextMode) and the save function of user-auth.js.          *)
(***************************************************************************)
ModeButtons == {"draw", "text"}
\* the operation types chosen in #operation-type
OperationChoices == {"solve", "laplace"}
SaveButtonInit == [label |-> "Save Calculation", resets |-> 0]
TextInputs == {<<>>, <<"x">>, <<"x", "^">>}
DrawExports == {<<>>, <<" ">>, <<"x">>}

NoData == [error |-> Undefined, solution |-> Missing, ai_steps |-> FALSE]
SolveData ==
    {[error |-> Undefined, solution |-> Str(<<"5">>), ai_steps |-> TRUE],
     [error |-> Undefined, solution |-> Arr(<<<<"1">>, <<"x", "=", "2">>>>),
      ai_steps |-> FALSE],
     [error |-> Undefined, solution |-> Missing, ai_steps |-> FALSE],
     [error |-> "e1", solution |-> Missing, ai_steps |-> FALSE]}
SolveResponses ==
    [status : {"2xx"}, body : {"json"}, data : SolveData]
    \cup [status : {"2xx", "non2xx"}, body : {"unparsable"}, data : {NoData}]
    \cup [status : {"non2xx"}, body : {"json"}, data : {NoData}]
    \cup [status : {"network-error"}, body : {"none"}, data : {NoData}]

\* no drawing UI in the page
BlankDraw ==
    [loadingCur |-> FALSE, loadingOld |-> 0, polling |-> 0, editorSet |-> FALSE,
     editorOnCurrent |-> FALSE, listeners |-> 0, latex |-> <<>>, shown |-> "none",
     solveDisabled |-> TRUE, solveLabel |-> "Solve", lastExport |-> <<>>]

\* init chains of DrawMode whose loadEditor or polling timer is still pending
PendingInits(d) == d.loadingOld + d.polling + (IF d.loadingCur THEN 1 ELSE 0)

\* DrawMode.init(): createUI(), then loadEditor() up to its first await; with
\* the library missing loadEditor returns at once and the polling timer starts
drawInit(d, iink) ==
    [d EXCEPT !.loadingCur = iink,
              !.polling = IF iink THEN @ ELSE @ + 1,
              !.editorOnCurrent = FALSE,
              !.listeners = 0,
              !.latex = <<>>,
              !.shown = IF iink THEN "placeholder" ELSE "message",
              !.solveDisabled = TRUE,
              !.solveLabel = "Solve",
              !.lastExport = <<>>]

\* the drawing UI is replaced by the text UI: its elements leave the page
drawDetach(d) ==
    [d EXCEPT !.loadingCur = FALSE,
              !.loadingOld = IF d.loadingCur THEN @ + 1 ELSE @,
              !.editorOnCurrent = FALSE,
              !.listeners = 0,
              !.latex = <<>>,
              !.shown = "none",
              !.solveDisabled = TRUE,
              !.solveLabel = "Solve",
              !.lastExport = <<>>]

\* no text UI in the page
NoTextUI == [input |-> <<>>, preview |-> "none", solveDisabled |-> TRUE,
             solveLabel |-> "Solve"]

\* TextMode.createUI()
textCreateUI == [input |-> <<>>, preview |-> "placeholder", solveDisabled |-> TRUE,
                 solveLabel |-> "Solve"]

\* a toggle that only ever adds the class: classList.add on the clicked button
toggleActiveAddOnly(mode) == activeButtons \cup {mode}

\* btn.classList.toggle('active', btn.dataset.mode === mode) over all buttons
toggleActive(mode) == {b \in ModeButtons : b = mode}

\* if (mode === this.currentMode) return;
sameMode(mode, current) == mode = current

\* TextMode.renderPreview(inputText): the value it leaves in currentLatex
renderPreview(inputText, operation) ==
    IF IsBlank(inputText) THEN <<>> ELSE processInputToLatex(inputText, operation)

\* what renderPreview leaves in #latex-preview for non-blank input
previewOf(latex) == IF katexRenderThrows(latex) THEN "error" ELSE "katex"

\* the calculator document is the one shown; an assignment to location.href
\* does not stop its timers and pending fetches, they run until the next
\* document replaces it
CalcLive == page = "calculator"

\* the user acts on the calculator: no navigation away from it is pending
UserActs == CalcLive /\ redirect = None

\* the calculator document after Calculator.init()
CalcFresh(iink) ==
    /\ iinkLoaded' = iink
    /\ currentMode' = "draw"
    /\ mainContent' = "draw"
    /\ activeButtons' = {"draw"}
    /\ draw' = drawInit(BlankDraw, iink)
    /\ text' = NoTextUI
    /\ currentLatex' = <<>>
    /\ staleInput' = <<>>
    /\ operationType' = "solve"
    /\ solves' = <<>>
    /\ solutionArea' = EmptyArea
    /\ timers' = {}
    /\ saves' = {}
    /\ dialogs' = {}
    /\ posted' = {}
    /\ saveButton' = SaveButtonInit

\* another document than the calculator is shown
NoCalculator ==
    /\ iinkLoaded' = TRUE
    /\ currentMode' = "draw"
    /\ mainContent' = "none"
    /\ activeButtons' = {}
    /\ draw' = BlankDraw
    /\ text' = NoTextUI
    /\ currentLatex' = <<>>
    /\ staleInput' = <<>>
    /\ operationType' = "solve"
    /\ solves' = <<>>
    /\ solutionArea' = EmptyArea
    /\ timers' = {}
    /\ saves' = {}
    /\ dialogs' = {}
    /\ posted' = {}
    /\ saveButton' = SaveButtonInit

(***************************************************************************)
(* Calculator.switchMode, triggered by a click on a mode button.           *)
(***************************************************************************)
SwitchMode(mode) ==
    /\ UserActs
    /\ dialogs' = {}
    /\ posted' = {}
    /\ IF sameMode(mode, currentMode)
       THEN UNCHANGED <<iinkLoaded, currentMode, mainContent, activeButtons, draw, text,
                        currentLatex, staleInput, operationType, solves, solutionArea,
                        timers, saves, saveButton>>
       ELSE /\ activeButtons' = toggleActive(mode)
            /\ currentMode' = mode
            /\ mainContent' = mode
            /\ IF mode = "draw"
               THEN /\ PendingInits(draw) < MaxInits
                    /\ draw' = drawInit(draw, iinkLoaded)
                    /\ text' = NoTextUI
                    /\ staleInput' = IF IsBlank(text.input) THEN staleInput
                                                            ELSE text.input
               ELSE /\ draw' = drawDetach(draw)
                    /\ text' = textCreateUI
                    /\ staleInput' = staleInput
            /\ solves' = [i \in DOMAIN solves |-> [solves[i] EXCEPT !.stale = TRUE]]
            /\ UNCHANGED <<iinkLoaded, currentLatex, operationType, solutionArea,
                           timers, saves, saveButton>>
    /\ UNCHANGED <<dash, page, pageScript, redirect, sessionVars, globalVars,
                   authPageVars, loggedOut, lastEvent>>

(***************************************************************************)
(* DrawMode: editor loading, polling timer, recogniser events.             *)
(***************************************************************************)
calcFrame == <<dash, page, pageScript, redirect, sessionVars, globalVars,
               authPageVars, loggedOut, lastEvent>>

\* iink.Editor.load resolves for the chain of the current UI (cur) or of an
\* older, detached UI; setupEventListeners then starts the polling timer
EditorLoaded(cur) ==
    /\ CalcLive
    /\ IF cur THEN draw.loadingCur ELSE draw.loadingOld > 0
    /\ draw' = [draw EXCEPT !.loadingCur = IF cur THEN FALSE ELSE @,
                            !.loadingOld = IF cur THEN @ ELSE @ - 1,
                            !.editorSet = TRUE,
                            !.editorOnCurrent = IF cur THEN TRUE ELSE @,
                            !.polling = @ + 1]
    /\ UNCHANGED <<iinkLoaded, currentMode, mainContent, activeButtons, text,
                   currentLatex, staleInput, operationType, solves, solutionArea,
                   timers, saves, saveButton>>
    /\ dialogs' = {}
    /\ posted' = {}
    /\ UNCHANGED calcFrame

\* iink.Editor.load rejects: the catch block writes to #result; when the text
\* UI is shown #result is missing, the catch block throws and the chain ends
EditorLoadFailed(cur) ==
    /\ CalcLive
    /\ IF cur THEN draw.loadingCur ELSE draw.loadingOld > 0
    /\ draw' = [draw EXCEPT !.loadingCur = IF cur THEN FALSE ELSE @,
                            !.loadingOld = IF cur THEN @ ELSE @ - 1,
                            !.shown = IF mainContent = "draw" THEN "message" ELSE @,
                            !.polling = IF mainContent = "draw" THEN @ + 1 ELSE @]
    /\ UNCHANGED <<iinkLoaded, currentMode, mainContent, activeButtons, text,
                   currentLatex, staleInput, operationType, solves, solutionArea,
                   timers, saves, saveButton>>
    /\ dialogs' = {}
    /\ posted' = {}
    /\ UNCHANGED calcFrame

\* a tick of the 100 ms timer of setupEventListeners that finds this.editor
\* set: the timer is cleared and the listeners are attached to the elements
\* found in the page now (with the text UI shown the lookup fails and throws)
PollTick ==
    /\ CalcLive
    /\ draw.polling > 0 /\ draw.editorSet
    /\ mainContent = "draw" => draw.listeners < MaxListeners
    /\ draw' = [draw EXCEPT !.polling = @ - 1,
                            !.listeners = IF mainContent = "draw" THEN @ + 1 ELSE @]
    /\ UNCHANGED <<iinkLoaded, currentMode, mainContent, activeButtons, text,
                   currentLatex, staleInput, operationType, solves, solutionArea,
                   timers, saves, saveButton>>
    /\ dialogs' = {}
    /\ posted' = {}
    /\ UNCHANGED calcFrame

\* the two "exported" listeners; latexExport is exports["application/x-latex"]
\* (empty when the export carries none)
Exported(latexExport) ==
    /\ UserActs
    /\ mainContent = "draw" /\ draw.editorOnCurrent /\ draw.listeners > 0
    /\ LET latex == IF latexExport # <<>> THEN cleanLatex(latexExport) ELSE draw.latex
       IN  draw' = [draw EXCEPT
                       !.latex = latex,
                       !.shown = IF latexExport = <<>> THEN "placeholder"
                                 ELSE IF katexRenderThrows(latex) THEN "raw" ELSE "katex",
                       !.solveDisabled = ~(latex # <<>> /\ ~IsBlank(latex)),
                       !.lastExport = latexExport]
    /\ UNCHANGED <<iinkLoaded, currentMode, mainContent, activeButtons, text,
                   currentLatex, staleInput, operationType, solves, solutionArea,
                   timers, saves, saveButton>>
    /\ dialogs' = {}
    /\ posted' = {}
    /\ UNCHANGED calcFrame

\* the finally block of both solve handlers: the button held by the handler
\* with no label reset
resetSolveButtonKeepLabel(ui) == [ui EXCEPT !.solveDisabled = FALSE]

\* the finally block of both solve handlers: solveButton.disabled = false,
\* solveButton.textContent = 'Solve'
resetSolveButton(ui) == [ui EXCEPT !.solveDisabled = FALSE, !.solveLabel = "Solve"]

NewSolve(mode, latex, operation) ==
    [mode |-> mode, latex |-> latex, operation_type |-> operation, stale |-> FALSE,
     status |-> "pending", data |-> NoData, autoSaves |-> 0]

\* click on #solve-btn: every attached click listener runs up to its fetch;
\* limit caps the number of solve requests of the document
DrawSolveClickUpTo(limit) ==
    /\ UserActs
    /\ mainContent = "draw" /\ draw.listeners > 0 /\ ~draw.solveDisabled
    /\ IF draw.latex = <<>>
       THEN UNCHANGED <<draw, solves>>
       ELSE /\ Len(solves) + draw.listeners <= limit
            /\ draw' = [draw EXCEPT !.solveDisabled = TRUE, !.solveLabel = "Solving..."]
            /\ solves' = solves \o
                  [k \in 1..draw.listeners |->
                      NewSolve("draw", draw.latex, DetectOperationType(draw.latex))]
    /\ UNCHANGED <<iinkLoaded, currentMode, mainContent, activeButtons, text,
                   currentLatex, staleInput, operationType, solutionArea, timers,
                   saves, saveButton>>
    /\ dialogs' = {}
    /\ posted' = {}
    /\ UNCHANGED calcFrame

DrawSolveClick == DrawSolveClickUpTo(MaxSolves)

\* what the try / catch of both solve handlers leaves in .solution-container
solveDisplay(resp, req) ==
    IF Parsed(resp) /\ Ok(resp)
    THEN displaySolution(resp.data, req)
    ELSE displayError("Error: " \o ThrownMessage(resp), req)

solveStatus(resp) ==
    IF ~(Parsed(resp) /\ Ok(resp)) THEN "failed"
    ELSE IF resp.data.error # Undefined THEN "error-field"
    ELSE "succeeded"

\* the continuation of the click listener of #solve-btn after await fetch
DrawSolveResponse(i, resp) ==
    /\ CalcLive
    /\ i \in DOMAIN solves /\ solves[i].mode = "draw" /\ solves[i].status = "pending"
    /\ solutionArea' = solveDisplay(resp, i)
    /\ solves' = [solves EXCEPT ![i].status = solveStatus(resp), ![i].data = resp.data]
    /\ draw' = IF solves[i].stale THEN draw
               ELSE resetSolveButton(draw)
    /\ UNCHANGED <<iinkLoaded, currentMode, mainContent, activeButtons, text,
                   currentLatex, staleInput, operationType, timers, saves,
                   saveButton>>
    /\ dialogs' = {}
    /\ posted' = {}
    /\ UNCHANGED calcFrame

(***************************************************************************)
(* TextMode: input, operation type, solve.                                 *)
(***************************************************************************)
\* "input" listener of #text-input
TextInput(value) ==
    /\ UserActs
    /\ mainContent = "text" /\ value # text.input
    /\ currentLatex' = renderPreview(value, operationType)
    /\ text' = [text EXCEPT !.input = value,
                            !.preview = IF IsBlank(value) THEN "placeholder"
                                        ELSE previewOf(renderPreview(value, operationType)),
                            !.solveDisabled = IsBlank(value)]
    /\ UNCHANGED <<iinkLoaded, currentMode, mainContent, activeButtons, draw,
                   staleInput, operationType, solves, solutionArea, timers, saves,
                   saveButton>>
    /\ dialogs' = {}
    /\ posted' = {}
    /\ UNCHANGED calcFrame

\* "change" of #operation-type: the listener of every text UI created so far
\* runs, oldest first, each on the value of its own textarea
OperationChange(operation) ==
    /\ UserActs
    /\ operation # operationType
    /\ operationType' = operation
    /\ currentLatex' =
          IF mainContent = "text" /\ ~IsBlank(text.input)
          THEN renderPreview(text.input, operation)
          ELSE IF staleInput # <<>> THEN renderPreview(staleInput, operation)
          ELSE currentLatex
    /\ text' = IF mainContent = "text" /\ (~IsBlank(text.input) \/ staleInput # <<>>)
               THEN [text EXCEPT !.preview = previewOf(currentLatex')]
               ELSE text
    /\ UNCHANGED <<iinkLoaded, currentMode, mainContent, activeButtons, draw,
                   staleInput, solves, solutionArea, timers, saves,
                   saveButton>>
    /\ dialogs' = {}
    /\ posted' = {}
    /\ UNCHANGED calcFrame

\* click on #text-solve-btn, or Ctrl+Enter with the button enabled:
\* TextMode.solveExpression() up to its fetch
TextSolveUpTo(limit) ==
    /\ UserActs
    /\ mainContent = "text" /\ ~text.solveDisabled
    /\ IF currentLatex = <<>>
       THEN UNCHANGED <<text, solves>>
       ELSE /\ Len(solves) < limit
            /\ text' = [text EXCEPT !.solveDisabled = TRUE, !.solveLabel = "Solving..."]
            /\ solves' = Append(solves, NewSolve("text", currentLatex, operationType))
    /\ UNCHANGED <<iinkLoaded, currentMode, mainContent, activeButtons, draw,
                   currentLatex, staleInput, operationType, solutionArea, timers,
                   saves, saveButton>>
    /\ dialogs' = {}
    /\ posted' = {}
    /\ UNCHANGED calcFrame

TextSolve == TextSolveUpTo(MaxSolves)

\* the condition under which TextMode.displaySolution starts the auto-save timer
autoSaveScheduled(authenticated, data) ==
    authenticated = "true" /\ data.error = Undefined

\* the continuation of solveExpression after await fetch
TextSolveResponse(i, resp) ==
    /\ CalcLive
    /\ i \in DOMAIN solves /\ solves[i].mode = "text" /\ solves[i].status = "pending"
    /\ solutionArea' = solveDisplay(resp, i)
    /\ solves' = [solves EXCEPT ![i].status = solveStatus(resp), ![i].data = resp.data]
    /\ timers' = IF Parsed(resp) /\ Ok(resp)
                    /\ autoSaveScheduled(winIsAuthenticated, resp.data)
                 THEN timers \cup {i} ELSE timers
    /\ text' = IF solves[i].stale THEN text
               ELSE resetSolveButton(text)
    /\ UNCHANGED <<iinkLoaded, currentMode, mainContent, activeButtons, draw,
                   currentLatex, staleInput, operationType, saves,
                   saveButton>>
    /\ dialogs' = {}
    /\ posted' = {}
    /\ UNCHANGED calcFrame

(***************************************************************************)
(* Saving: TextMode.autoSaveCalculation and saveCurrentCalculation.        *)
(***************************************************************************)
\* a solution argument / body field: taken from a response or read from the
\* text of .solution-container
NoSolutionArg == [source |-> "none", text |-> <<>>, area |-> EmptyArea]
FromResponse(chars) == [source |-> "response", text |-> chars, area |-> EmptyArea]
FromContainer(area) == [source |-> "container", text |-> <<>>, area |-> area]

SolutionArgTruthy(arg) ==
    CASE arg.source = "response" -> arg.text # <<>>
      [] arg.source = "container" -> AreaHasText(arg.area)
      [] OTHER -> FALSE

NoCall == [called |-> FALSE, latexInput |-> <<>>, solution |-> NoSolutionArg,
           operation |-> "", explanation |-> FALSE, title |-> NoTitle]

\* TextMode.autoSaveCalculation(solution): the call of saveCurrentCalculation
\* it makes, if any
autoSaveCalculation(data, latexInput, operation) ==
    IF latexInput = <<>> \/ ~SolutionTruthy(data.solution)
    THEN NoCall
    ELSE [called |-> TRUE, latexInput |-> latexInput,
          solution |-> FromResponse(solutionText(data.solution)),
          operation |-> operation, explanation |-> data.ai_steps,
          title |-> generatedTitle(operation)]

TitleTruthy(title) == title.kind = "generated"

\* if (!title && !manualLatexInput)
promptsForTitle(manualTitle, manualLatexInput) ==
    ~TitleTruthy(manualTitle) /\ manualLatexInput = <<>>

\* if (!manualLatexInput): the outcome of the request is reported by alert
alertsOutcome(manualLatexInput) == manualLatexInput = <<>>

NoBody == [latex_input |-> <<>>, operation_type |-> "", solution |-> NoSolutionArg,
           ai_explanation |-> FALSE, title |-> NoTitle]

\* saveCurrentCalculation up to its fetch; window.currentMode is never
\* assigned and #drawing-latex-result does not exist, so without argument the
\* input is #result.dataset.latex of the drawing UI, or '' with the text UI
saveCurrentCalculation(manualLatexInput, manualSolution, manualOperationType, manualExplanation, manualTitle, promptAnswer) ==
    LET latexInput == IF manualLatexInput # <<>> THEN manualLatexInput
                      ELSE IF mainContent = "draw" THEN draw.latex ELSE <<>>
        solution == IF SolutionArgTruthy(manualSolution) THEN manualSolution
                    ELSE FromContainer(solutionArea)
        prompted == promptsForTitle(manualTitle, manualLatexInput)
    IN  IF ~isAuthenticated \/ ~Truthy(authToken)
        THEN [alert |-> "Please log in to save calculations", prompted |-> FALSE,
              send |-> FALSE, body |-> NoBody]
        ELSE IF latexInput = <<>> \/ ~SolutionArgTruthy(solution)
        THEN [alert |-> IF manualLatexInput = <<>> /\ ~SolutionArgTruthy(manualSolution)
                        THEN "No calculation to save" ELSE "",
              prompted |-> FALSE, send |-> FALSE, body |-> NoBody]
        ELSE [alert |-> "", prompted |-> prompted, send |-> TRUE,
              body |-> [latex_input |-> latexInput,
                        operation_type |-> IF manualOperationType # ""
                                           THEN manualOperationType ELSE operationType,
                        solution |-> solution,
                        ai_explanation |-> manualExplanation,
                        title |-> IF prompted THEN promptAnswer ELSE manualTitle]]

Dialog(caller, dialog, message) ==
    [caller |-> caller, dialog |-> dialog, message |-> message]

\* the dialogs a call of saveCurrentCalculation opens before its fetch
callDialogs(caller, r) ==
    (IF r.alert # "" THEN {Dialog(caller, "alert", r.alert)} ELSE {})
    \cup (IF r.prompted THEN {Dialog(caller, "prompt", "Enter a title")} ELSE {})

\* a save request in flight: who called and the argument its continuation reads
FreeSaveIds == (1..(MaxSolves + MaxManualSaves)) \ {sv.id : sv \in saves}

NewSave(caller, manualLatexInput) ==
    [id |-> CHOOSE i \in FreeSaveIds : \A j \in FreeSaveIds : i <= j,
     caller |-> caller, manualLatexInput |-> manualLatexInput]

\* the Authorization header: `Bearer ${authToken}`
Bearer(token) == <<"Bearer ", token>>

\* the request a call sends: who called, the solve whose response or display
\* the call read, whether the title prompt was shown first, the body
Posted(caller, origin, r) ==
    [caller |-> caller, origin |-> origin, prompted |-> r.prompted, body |-> r.body,
     authorization |-> Bearer(authToken)]

\* the 1000 ms timer started by TextMode.displaySolution fires
AutoSaveTimer(i) ==
    /\ CalcLive
    /\ i \in timers
    /\ timers' = timers \ {i}
    /\ LET call == autoSaveCalculation(solves[i].data, currentLatex, operationType)
           r == saveCurrentCalculation(call.latexInput, call.solution, call.operation,
                                       call.explanation, call.title, NoTitle)
       IN  IF call.called
           THEN /\ dialogs' = callDialogs("auto", r)
                /\ posted' = IF r.send THEN {Posted("auto", i, r)} ELSE {}
                /\ saves' = IF r.send
                            THEN saves \cup {NewSave("auto", call.latexInput)}
                            ELSE saves
                /\ solves' = IF r.send
                             THEN [solves EXCEPT ![i].autoSaves = @ + 1]
                             ELSE solves
           ELSE /\ dialogs' = {}
                /\ posted' = {}
                /\ UNCHANGED <<saves, solves>>
    /\ UNCHANGED <<iinkLoaded, currentMode, mainContent, activeButtons, draw, text,
                   currentLatex, staleInput, operationType, solutionArea, saveButton>>
    /\ UNCHANGED calcFrame

ManualSaves == {sv \in saves : sv.caller = "manual"}

\* saveCurrentCalculation() without arguments: the click listener of
\* #save-calculation, or a call of window.saveCurrentCalculation
ManualSave(promptAnswer) ==
    /\ UserActs
    /\ LET r == saveCurrentCalculation(<<>>, NoSolutionArg, "", FALSE, NoTitle,
                                       promptAnswer)
       IN  /\ r.send => Cardinality(ManualSaves) < MaxManualSaves
           /\ dialogs' = callDialogs("manual", r)
           /\ posted' = IF r.send THEN {Posted("manual", solutionArea.req, r)} ELSE {}
           /\ saves' = IF r.send THEN saves \cup {NewSave("manual", <<>>)} ELSE saves
    /\ UNCHANGED <<iinkLoaded, currentMode, mainContent, activeButtons, draw, text,
                   currentLatex, staleInput, operationType, solves, solutionArea,
                   timers, saveButton>>
    /\ UNCHANGED calcFrame

SaveOutcomes == {"saved", "rejected", "exception"}

outcomeMessage(outcome) ==
    CASE outcome = "saved" -> "Calculation saved successfully! View it in My Calculations."
      [] outcome = "rejected" -> "Error saving calculation: Unknown error"
      [] OTHER -> "Error saving calculation. Please try again."

\* the continuation of saveCurrentCalculation after await fetch
SaveResponse(sv, outcome) ==
    /\ CalcLive
    /\ sv \in saves
    /\ saves' = saves \ {sv}
    /\ dialogs' = IF alertsOutcome(sv.manualLatexInput)
                  THEN {Dialog(sv.caller, "alert", outcomeMessage(outcome))}
                  ELSE {}
    /\ posted' = {}
    /\ saveButton' = IF outcome = "saved" /\ ~alertsOutcome(sv.manualLatexInput)
                     THEN [label |-> "Saved!", resets |-> saveButton.resets + 1]
                     ELSE saveButton
    /\ UNCHANGED <<iinkLoaded, currentMode, mainContent, activeButtons, draw, text,
                   currentLatex, staleInput, operationType, solves, solutionArea,
                   timers>>
    /\ UNCHANGED calcFrame

\* the 2000 ms timer that restores the label of #save-calculation
SavedLabelTimer ==
    /\ CalcLive
    /\ saveButton.resets > 0
    /\ saveButton' = [label |-> "Save Calculation", resets |-> saveButton.resets - 1]
    /\ UNCHANGED <<iinkLoaded, currentMode, mainContent, activeButtons, draw, text,
                   currentLatex, staleInput, operationType, solves, solutionArea,
                   timers, saves>>
    /\ dialogs' = {}
    /\ posted' = {}
    /\ UNCHANGED calcFrame

(***************************************************************************)
(* Page loads.                                                             *)
(***************************************************************************)
LoadAuthPage ==
    /\ \E script \in {"auth.js", "auth.html"} : pageScript' = script
    /\ page' = "auth"
    /\ redirect' = None
    /\ FreshGlobals
    /\ FreshAuthPage
    /\ NoCalculator
    /\ dash' = NoDashboard(dash)
    /\ lastEvent' = Event("loadAuth")
    /\ UNCHANGED <<localStorage, cookie, loggedOut>>

LoadDashboard ==
    /\ \E script \in DashboardScripts : pageScript' = script
    /\ page' = "dashboard"
    /\ redirect' = dashboardInitAuth(localStorage)
    /\ FreshGlobals
    /\ FreshAuthPage
    /\ NoCalculator
    /\ dash' = dashboardLoad(dash, localStorage, pageScript')
    /\ lastEvent' = [Event("loadDashboard") EXCEPT
                        !.hadSession = HasStoredSession(localStorage)]
    /\ UNCHANGED <<localStorage, cookie, loggedOut>>

LoadCalculator ==
    LET r == initAuth(localStorage, cookie)
    IN  /\ page' = "calculator"
        /\ pageScript' = "user-auth.js"
        /\ redirect' = r.redirect
        /\ isAuthenticated' = r.isAuthenticated
        /\ currentUser' = r.currentUser
        /\ authToken' = r.authToken
        /\ winIsAuthenticated' = r.winIsAuthenticated
        /\ winAuthToken' = r.winAuthToken
        /\ localStorage' = r.localStorage
        /\ cookie' = r.cookie
        /\ loggedOut' = (loggedOut \/ r.loggedOut)
        /\ FreshAuthPage
        /\ \E iink \in BOOLEAN : CalcFresh(iink)
        /\ dash' = NoDashboard(dash)
        /\ lastEvent' = [Event("loadCalculator") EXCEPT
                            !.hadSession = HasStoredSession(localStorage)]

(***************************************************************************)
(* Logout link.                                                            *)
(***************************************************************************)
LogoutCalculator ==
    /\ UserActs
    /\ isAuthenticated' = logout.isAuthenticated
    /\ currentUser' = logout.currentUser
    /\ authToken' = logout.authToken
    /\ localStorage' = logout.localStorage
    /\ cookie' = logout.cookie
    /\ redirect' = logout.redirect
    /\ loggedOut' = TRUE
    /\ lastEvent' = Event("logout")
    /\ dialogs' = {}
    /\ posted' = {}
    /\ UNCHANGED <<dash, page, pageScript, winIsAuthenticated, winAuthToken, authPageVars>>
    /\ UNCHANGED <<iinkLoaded, currentMode, mainContent, activeButtons, draw, text,
                   currentLatex, staleInput, operationType, solves, solutionArea,
                   timers, saves, saveButton>>

LogoutDashboard ==
    /\ page = "dashboard" /\ redirect = None
    /\ localStorage' = EmptyStorage
    /\ cookie' = dashboardLogoutCookie(pageScript, cookie)
    /\ redirect' = "/login"
    /\ loggedOut' = TRUE
    /\ lastEvent' = Event("logout")
    /\ UNCHANGED <<dash, page, pageScript, globalVars, authPageVars>>
    /\ UNCHANGED calcVars

(***************************************************************************)
(* Sign-in page handlers (auth.js and the inline script of auth.html).     *)
(***************************************************************************)
\* click on a toggle button / tab / link: toggleAuthMode(mode)
ToggleAuthMode(mode) ==
    /\ page = "auth" /\ redirect = None
    /\ isLogin' = (mode = "login")
    /\ formErrors' = NoErrors
    /\ lastEvent' = [Event("toggle") EXCEPT !.mode = mode]
    /\ UNCHANGED <<dash, page, pageScript, redirect, sessionVars, globalVars,
                   authRequests, loggedOut>>
    /\ UNCHANGED calcVars

FreeRequestIds == (1..MaxAuthRequests) \ {r.id : r \in authRequests}

\* form submit: validation, then the fetch of the endpoint of the current mode
Submit(fd) ==
    /\ page = "auth" /\ redirect = None
    /\ LET errors == ValidationErrors(pageScript, isLogin, fd)
       IN  /\ formErrors' = errors
           /\ IF errors = NoErrors
              THEN /\ FreeRequestIds # {}
                   /\ authRequests' = authRequests \cup
                         {[id |-> CHOOSE i \in FreeRequestIds :
                                     \A j \in FreeRequestIds : i <= j,
                           request |-> AuthRequest(isLogin, fd)]}
              ELSE authRequests' = authRequests
    /\ lastEvent' = [Event("submit") EXCEPT
                        !.mode = IF isLogin THEN "login" ELSE "register"]
    /\ UNCHANGED <<dash, page, pageScript, redirect, sessionVars, globalVars, isLogin,
                   loggedOut>>
    /\ UNCHANGED calcVars

\* a success branch that forgets the second setItem
storeSessionTokenOnly(resp) ==
    [localStorage |-> [authToken |-> ToStorage(resp.token), currentUser |-> None],
     cookie |-> setCookie(resp.token, CookieDays),
     redirect |-> "/"]

\* what the success branch writes: localStorage.setItem x2 and setCookie
storeSession(resp) ==
    [localStorage |-> [authToken |-> ToStorage(resp.token),
                       currentUser |-> ToStorage(JSONstringify(resp.user))],
     cookie |-> setCookie(resp.token, CookieDays),
     redirect |-> "/"]

\* the continuation of the submit handler after await fetch / response.json()
AuthResponse(r, resp) ==
    /\ page = "auth"
    /\ r \in authRequests
    /\ resp \in AuthResponses(r.request.endpoint)
    /\ authRequests' = authRequests \ {r}
    /\ lastEvent' = ResponseEvent(isLogin, resp)
    /\ IF Parsed(resp) /\ Ok(resp)
       THEN IF isLogin
            THEN /\ localStorage' = storeSession(resp).localStorage
                 /\ cookie' = storeSession(resp).cookie
                 /\ redirect' = storeSession(resp).redirect
                 /\ loggedOut' = FALSE
                 /\ UNCHANGED <<isLogin, formErrors>>
            ELSE /\ isLogin' = TRUE
                 /\ formErrors' =
                       IF pageScript = "auth.js"
                       THEN [NoErrors EXCEPT !["username"] =
                               "Registration successful! Please login with your username."]
                       ELSE [NoErrors EXCEPT !["general"] =
                               "Registration successful! Please login."]
                 /\ UNCHANGED <<localStorage, cookie, redirect, loggedOut>>
       ELSE /\ formErrors' =
                  [formErrors EXCEPT ![FailureElement(pageScript, isLogin)] =
                      FailureMessage(pageScript, isLogin, resp)]
            /\ UNCHANGED <<localStorage, cookie, redirect, isLogin, loggedOut>>
    /\ UNCHANGED <<dash, page, pageScript, globalVars>>
    /\ UNCHANGED calcVars

(***************************************************************************)
(* Session specification: a browser that starts on the sign-in page with   *)
(* empty storage and no cookie.                                            *)
(***************************************************************************)
\* the calculator variables while another document is shown
NoCalculatorInit ==
    /\ iinkLoaded = TRUE
    /\ currentMode = "draw"
    /\ mainContent = "none"
    /\ activeButtons = {}
    /\ draw = BlankDraw
    /\ text = NoTextUI
    /\ currentLatex = <<>>
    /\ staleInput = <<>>
    /\ operationType = "solve"
    /\ solves = <<>>
    /\ solutionArea = EmptyArea
    /\ timers = {}
    /\ saves = {}
    /\ dialogs = {}
    /\ posted = {}
    /\ saveButton = SaveButtonInit

Init ==
    /\ page = "auth"
    /\ pageScript \in {"auth.js", "auth.html"}
    /\ redirect = None
    /\ localStorage = EmptyStorage
    /\ cookie = NoCookie
    /\ isAuthenticated = FALSE
    /\ currentUser = None
    /\ authToken = None
    /\ winIsAuthenticated = Undefined
    /\ winAuthToken = Undefined
    /\ isLogin = TRUE
    /\ authRequests = {}
    /\ formErrors = NoErrors
    /\ loggedOut = FALSE
    /\ lastEvent = Event("init")
    /\ NoCalculatorInit
    /\ dash = NoDashboard(ServerInit)

Next ==
    \/ LoadAuthPage
    \/ LoadDashboard
    \/ LoadCalculator
    \/ LogoutCalculator
    \/ LogoutDashboard
    \/ \E mode \in {"login", "register"} : ToggleAuthMode(mode)
    \/ \E fd \in FormsRead(isLogin) : Submit(fd)
    \/ \E r \in authRequests : \E resp \in AuthResponses(r.request.endpoint) :
          AuthResponse(r, resp)

Spec == Init /\ [][Next]_vars

(***************************************************************************)
(* Calculator specification: the calculator page right after its load,     *)
(* with or without a stored session, with or without the recogniser.       *)
(***************************************************************************)
StoredSession ==
    [authToken |-> ToStorage("t1"), currentUser |-> ToStorage(JSONstringify("u1"))]

InitCalc ==
    /\ page = "calculator"
    /\ pageScript = "user-auth.js"
    /\ \E ls \in {EmptyStorage, StoredSession} :
          LET ck == IF ls = EmptyStorage THEN NoCookie ELSE setCookie("t1", CookieDays)
              r == initAuth(ls, ck)
          IN  /\ redirect = r.redirect
              /\ isAuthenticated = r.isAuthenticated
              /\ currentUser = r.currentUser
              /\ authToken = r.authToken
              /\ winIsAuthenticated = r.winIsAuthenticated
              /\ winAuthToken = r.winAuthToken
              /\ localStorage = r.localStorage
              /\ cookie = r.cookie
              /\ lastEvent = [Event("loadCalculator") EXCEPT
                                 !.hadSession = HasStoredSession(ls)]
    /\ loggedOut = FALSE
    /\ isLogin = TRUE
    /\ authRequests = {}
    /\ formErrors = NoErrors
    /\ iinkLoaded \in BOOLEAN
    /\ currentMode = "draw"
    /\ mainContent = "draw"
    /\ activeButtons = {"draw"}
    /\ draw = drawInit(BlankDraw, iinkLoaded)
    /\ text = NoTextUI
    /\ currentLatex = <<>>
    /\ staleInput = <<>>
    /\ operationType = "solve"
    /\ solves = <<>>
    /\ solutionArea = EmptyArea
    /\ timers = {}
    /\ saves = {}
    /\ dialogs = {}
    /\ posted = {}
    /\ saveButton = SaveButtonInit
    /\ dash = NoDashboard(ServerInit)

NextCalc ==
    \/ \E mode \in ModeButtons : SwitchMode(mode)
    \/ \E cur \in BOOLEAN : EditorLoaded(cur)
    \/ \E cur \in BOOLEAN : EditorLoadFailed(cur)
    \/ PollTick
    \/ \E latexExport \in DrawExports : Exported(latexExport)
    \/ DrawSolveClick
    \/ \E i \in DOMAIN solves, resp \in SolveResponses :
          DrawSolveResponse(i, resp)
    \/ \E value \in TextInputs : TextInput(value)
    \/ \E operation \in OperationChoices : OperationChange(operation)
    \/ TextSolve
    \/ \E i \in DOMAIN solves, resp \in SolveResponses :
          TextSolveResponse(i, resp)
    \/ \E i \in timers : AutoSaveTimer(i)
    \/ \E promptAnswer \in {NoTitle, TypedTitle} : ManualSave(promptAnswer)
    \/ \E sv \in saves, outcome \in SaveOutcomes : SaveResponse(sv, outcome)
    \/ SavedLabelTimer
    \/ LogoutCalculator

SpecCalc == InitCalc /\ [][NextCalc]_vars

(***************************************************************************)
(* Rendering specification: one solve request is in flight, sent from the  *)
(* drawing UI or from the text UI, and is answered by a list of solutions. *)
(***************************************************************************)
MaxSolutions == 3
SolutionItems == {<<"1">>, <<"2">>, <<"x", "=", "1">>, <<"y", "=", "2">>}
SolutionLists ==
    UNION {[1..n -> SolutionItems] : n \in 2..MaxSolutions}
RenderResponses ==
    [status : {"2xx"}, body : {"json"},
     data : [error : {Undefined}, solution : {Arr(l) : l \in SolutionLists},
             ai_steps : {FALSE}]]

InitRender ==
    /\ page = "calculator"
    /\ pageScript = "user-auth.js"
    /\ LET r == initAuth(StoredSession, setCookie("t1", CookieDays))
       IN  /\ redirect = r.redirect
           /\ isAuthenticated = r.isAuthenticated
           /\ currentUser = r.currentUser
           /\ authToken = r.authToken
           /\ winIsAuthenticated = r.winIsAuthenticated
           /\ winAuthToken = r.winAuthToken
           /\ localStorage = r.localStorage
           /\ cookie = r.cookie
    /\ lastEvent = [Event("loadCalculator") EXCEPT !.hadSession = TRUE]
    /\ loggedOut = FALSE
    /\ isLogin = TRUE
    /\ authRequests = {}
    /\ formErrors = NoErrors
    /\ iinkLoaded = TRUE
    /\ currentMode \in ModeButtons
    /\ mainContent = currentMode
    /\ activeButtons = {currentMode}
    /\ draw = IF currentMode = "draw"
              THEN [BlankDraw EXCEPT !.editorSet = TRUE, !.editorOnCurrent = TRUE,
                                     !.listeners = 1, !.latex = <<"x">>,
                                     !.shown = "katex", !.solveDisabled = TRUE,
                                     !.solveLabel = "Solving...",
                                     !.lastExport = <<"x">>]
              ELSE [BlankDraw EXCEPT !.loadingOld = 1]
    /\ text = IF currentMode = "draw" THEN NoTextUI
              ELSE [input |-> <<"x">>, preview |-> "katex", solveDisabled |-> TRUE,
                    solveLabel |-> "Solving..."]
    /\ currentLatex = IF currentMode = "draw" THEN <<>> ELSE <<"x">>
    /\ staleInput = <<>>
    /\ operationType = "solve"
    /\ solves = <<NewSolve(currentMode, <<"x">>, "solve")>>
    /\ solutionArea = EmptyArea
    /\ timers = {}
    /\ saves = {}
    /\ dialogs = {}
    /\ posted = {}
    /\ saveButton = SaveButtonInit
    /\ dash = NoDashboard(ServerInit)

NextRender ==
    \/ \E resp \in RenderResponses : DrawSolveResponse(1, resp)
    \/ \E resp \in RenderResponses : TextSolveResponse(1, resp)

SpecRender == InitRender /\ [][NextRender]_vars

(***************************************************************************)
(* Conversion specification: the text UI is opened and the user types one  *)
(* of a family of inputs into the empty textarea, under each of the three  *)
(* operation types; what renderPreview stores in currentLatex is           *)
(* processInputToLatex of it.                                              *)
(***************************************************************************)
\* the placeholder's Laplace example and the Fourier example
LaplaceExample == <<"t", "^", "2", "e", "^", "(", "-", "3", "t", ")">>
FourierExample ==
    <<"x", "^", "2", "[", "-", "3", ".", "1", "4", ",", "3", ".", "1", "4", "]">>

\* e^(E) and e^-(E)
ExponentSigns == {<<>>, <<"-">>}
ExponentBodies ==
    {<<"2">>, <<"t">>, <<"3", "t">>, <<"-", "3", "t">>, <<"t", "+", "1">>}
ExponentInput(sign, body) == <<"e", "^">> \o sign \o <<"(">> \o body \o <<")">>
ExponentInputs ==
    {ExponentInput(sign, body) : sign \in ExponentSigns, body \in ExponentBodies}

\* expr[a,b], alone or as the last line of the textarea
LinePrefixes == {<<>>, <<"1", "\n">>}
DomainExprs == {<<"x">>, <<"x", "^", "2">>, <<"2", "x">>}
DomainBounds ==
    {<<"0">>, <<"-", "3", ".", "1", "4">>, <<"3", ".", "1", "4">>, <<"2", "p">>}
DomainInput(prefix, expr, a, b) ==
    prefix \o expr \o <<"[">> \o a \o <<",">> \o b \o <<"]">>
DomainInputs ==
    {DomainInput(prefix, expr, a, b) :
        prefix \in LinePrefixes, expr \in DomainExprs,
        a \in DomainBounds, b \in DomainBounds}

\* inputs that do not end with [a,b]
UnannotatedInputs ==
    DomainExprs \cup {<<"x", "[", "0", "]">>, <<"x", "[", "0", ",", "1">>,
                      <<"x", "[", "0", ",", "1", "]", "+", "1">>}

ConvertInputs ==
    {LaplaceExample} \cup ExponentInputs \cup DomainInputs \cup UnannotatedInputs

NextConvert ==
    \/ SwitchMode("text")
    \/ \E value \in ConvertInputs : text.input = <<>> /\ TextInput(value)
    \/ \E operation \in OperationTypes : OperationChange(operation)

SpecConvert == InitCalc /\ [][NextConvert]_vars

(***************************************************************************)
(* Dashboard specification: the dashboard page loaded on a stored session, *)
(* its list requests, the sort select and the delete buttons; the server   *)
(* answers each request at some moment between its sending and its         *)
(* response.                                                               *)
(***************************************************************************)
MaxListRequests == 4
MaxDeletes == 1

\* the dashboard document is the one shown: its timers and pending fetches run
DashLive == page = "dashboard"

\* the user acts on the dashboard: no navigation away from it is pending
DashUserActs == DashLive /\ redirect = None

dashFrame == <<page, pageScript, redirect, sessionVars, globalVars, authPageVars,
               loggedOut, lastEvent, calcVars>>

\* the cards of #calculations-list the user sees
visibleCards(d) ==
    IF d.kind = "cards" THEN {d.shown[k] : k \in DOMAIN d.shown} \ d.faded ELSE {}

\* "change" of #sort-calculations: only the later copy registers a listener
SortChange(value) ==
    /\ DashUserActs
    /\ value # dash.sortValue
    /\ LET d == [dash EXCEPT !.sortValue = value, !.dialog = ""]
       IN  IF pageScript = "dashboard-v2.js" /\ Truthy(localStorage.authToken)
           THEN /\ dash.sent < MaxListRequests
                /\ dash' = loadSavedCalculations(d, pageScript)
           ELSE dash' = d
    /\ UNCHANGED dashFrame

\* the server answers GET /api/calculations
ListServe(f, answer) ==
    /\ DashLive
    /\ f \in dash.fetches /\ f.answer = "none"
    /\ dash' = [dash EXCEPT
                  !.fetches = (@ \ {f}) \cup
                     {[f EXCEPT !.answer = answer,
                                !.calculations =
                                   IF answer = "list"
                                   THEN calculationsOf(dash.stored) ELSE <<>>]},
                  !.dialog = ""]
    /\ UNCHANGED dashFrame

\* the fetch of a list request settles and loadSavedCalculations continues
ListResponse(f) ==
    /\ DashLive
    /\ f \in dash.fetches
    /\ dash' = [listResponse(dash, f, pageScript) EXCEPT
                   !.fetches = @ \ {f}, !.dialog = ""]
    /\ UNCHANGED dashFrame

\* click on the delete button of a card: deleteSavedCalculation(id) up to its
\* fetch, with the answer the user gives to confirm()
DeleteClick(id, confirmed) ==
    /\ DashUserActs
    /\ id \in visibleCards(dash)
    /\ Truthy(localStorage.authToken)
    /\ IF confirmed
       THEN /\ dash.deletesSent < MaxDeletes
            /\ dash' = [dash EXCEPT
                          !.deletesSent = @ + 1,
                          !.deletes = @ \cup {[id |-> dash.deletesSent + 1,
                                               calculation |-> id,
                                               answer |-> "none"]},
                          !.dialog = "Are you sure you want to delete this calculation?"]
       ELSE dash' = [dash EXCEPT
                        !.dialog = "Are you sure you want to delete this calculation?"]
    /\ UNCHANGED dashFrame

\* the server answers DELETE /api/calculations/<id>
DeleteServe(r, answer) ==
    /\ DashLive
    /\ r \in dash.deletes /\ r.answer = "none"
    /\ answer = "success" => r.calculation \in dash.stored
    /\ dash' = [dash EXCEPT
                  !.deletes = (@ \ {r}) \cup {[r EXCEPT !.answer = answer]},
                  !.stored = IF answer = "success" THEN @ \ {r.calculation} ELSE @,
                  !.dialog = ""]
    /\ UNCHANGED dashFrame

\* the fetch of a delete request settles and deleteSavedCalculation continues
DeleteResponse(r) ==
    /\ DashLive
    /\ r \in dash.deletes
    /\ LET d == [dash EXCEPT !.deletes = @ \ {r}, !.dialog = ""]
           gone == [d EXCEPT !.removed = @ \cup {r.calculation}]
           cardFound == dash.kind = "cards"
                           /\ \E k \in DOMAIN dash.shown : dash.shown[k] = r.calculation
       IN  CASE r.answer = "success" ->
                  IF pageScript = "dashboard-v2.js" /\ cardFound
                  THEN dash' = [gone EXCEPT !.faded = @ \cup {r.calculation},
                                            !.fadeTimers = @ + 1]
                  ELSE /\ dash.sent < MaxListRequests
                       /\ dash' = loadSavedCalculations(gone, pageScript)
             [] r.answer = "error" ->
                  dash' = [d EXCEPT !.dialog = "Error deleting calculation: Unknown error"]
             [] OTHER ->
                  dash' = [d EXCEPT !.dialog = "Error deleting calculation. Please try again."]
    /\ UNCHANGED dashFrame

\* the 300 ms timer of the fade animation fires: the list is requested again
FadeTimer ==
    /\ DashLive
    /\ dash.fadeTimers > 0
    /\ dash.sent < MaxListRequests
    /\ dash' = loadSavedCalculations(
                  [dash EXCEPT !.fadeTimers = @ - 1, !.dialog = ""], pageScript)
    /\ UNCHANGED dashFrame

InitDash ==
    /\ page = "dashboard"
    /\ pageScript \in DashboardScripts
    /\ redirect = None
    /\ localStorage = StoredSession
    /\ cookie = setCookie("t1", CookieDays)
    /\ isAuthenticated = FALSE
    /\ currentUser = None
    /\ authToken = None
    /\ winIsAuthenticated = Undefined
    /\ winAuthToken = Undefined
    /\ isLogin = TRUE
    /\ authRequests = {}
    /\ formErrors = NoErrors
    /\ loggedOut = FALSE
    /\ lastEvent = [Event("loadDashboard") EXCEPT !.hadSession = TRUE]
    /\ NoCalculatorInit
    /\ dash = dashboardLoad(ServerInit, localStorage, pageScript)

NextDash ==
    \/ LoadDashboard
    \/ \E value \in SortOptions : SortChange(value)
    \/ \E f \in dash.fetches, answer \in {"list", "error"} : ListServe(f, answer)
    \/ \E f \in dash.fetches : ListResponse(f)
    \/ \E id \in CalculationIds, confirmed \in BOOLEAN : DeleteClick(id, confirmed)
    \/ \E r \in dash.deletes, answer \in {"success", "error"} : DeleteServe(r, answer)
    \/ \E r \in dash.deletes : DeleteResponse(r)
    \/ FadeTimer

SpecDash == InitDash /\ [][NextDash]_vars

(***************************************************************************)
(* PDF export of the later dashboard script: convertToPDF,                 *)
(* downloadServerGeneratedPDF and the modal.                               *)
(***************************************************************************)
MaxExports == 2
MaxDownloads == 2

\* the handlers of the modal leave every other part of the dashboard alone
withPdf(pdf) == [dash EXCEPT !.pdf = pdf, !.dialog = ""]

\* click on "Convert to PDF" of a card, which the open modal covers:
\* convertToPDF(calculationId) up to its fetch
ConvertToPDF(id) ==
    /\ DashUserActs /\ pageScript = "dashboard-v2.js"
    /\ id \in visibleCards(dash) /\ ~dash.pdf.modal
    /\ IF ~Truthy(localStorage.authToken)
       THEN dash' = withPdf([dash.pdf EXCEPT !.requested = 0, !.downloaded = 0])
       ELSE /\ dash.pdf.exports < MaxExports
            /\ dash' = withPdf([dash.pdf EXCEPT
                  !.preview = [kind |-> "loading", calculation |-> 0],
                  !.modal = TRUE,
                  !.exports = @ + 1,
                  !.details = @ \cup {[id |-> dash.pdf.exports + 1, calculation |-> id]},
                  !.opened = id,
                  !.requested = 0, !.downloaded = 0])
    /\ UNCHANGED dashFrame

\* the fetch of the calculation details settles: the then-chain writes the
\* preview and sets the click handler of #download-pdf, the catch writes the
\* error message into the preview
DetailResponse(f, answer) ==
    /\ DashLive
    /\ f \in dash.pdf.details
    /\ answer = "details" => f.calculation \in dash.stored
    /\ dash' = withPdf(
          IF answer = "details"
          THEN [dash.pdf EXCEPT
                  !.details = @ \ {f},
                  !.preview = [kind |-> "details", calculation |-> f.calculation],
                  !.onclick = f.calculation,
                  !.requested = 0, !.downloaded = 0]
          ELSE [dash.pdf EXCEPT
                  !.details = @ \ {f},
                  !.preview = [kind |-> "error", calculation |-> 0],
                  !.requested = 0, !.downloaded = 0])
    /\ UNCHANGED dashFrame

\* click on the close button, on Cancel or outside the modal
CloseModal ==
    /\ DashUserActs /\ dash.pdf.modal
    /\ dash' = withPdf([dash.pdf EXCEPT !.modal = FALSE, !.requested = 0,
                                        !.downloaded = 0])
    /\ UNCHANGED dashFrame

\* click on #download-pdf: without handler nothing happens, otherwise
\* downloadServerGeneratedPDF(calculationId, title) runs up to its fetch
DownloadClick ==
    /\ DashUserActs /\ dash.pdf.modal /\ ~dash.pdf.button.disabled
    /\ IF dash.pdf.onclick = 0 \/ ~Truthy(localStorage.authToken)
       THEN dash' = withPdf([dash.pdf EXCEPT !.requested = 0, !.downloaded = 0])
       ELSE /\ dash.pdf.downloads < MaxDownloads
            /\ dash' = withPdf([dash.pdf EXCEPT
                  !.button = [label |-> "Generating PDF...", disabled |-> TRUE],
                  !.downloads = @ + 1,
                  !.pdfFetches = @ \cup {[id |-> dash.pdf.downloads + 1,
                                          calculation |-> dash.pdf.onclick,
                                          originalText |-> dash.pdf.button.label]},
                  !.requested = dash.pdf.onclick, !.downloaded = 0])
    /\ UNCHANGED dashFrame

\* the fetch of the PDF settles: the file is handed to the browser, or the
\* catch re-enables the button; both start the 2000 ms timer
PdfResponse(g, ok) ==
    /\ DashLive
    /\ g \in dash.pdf.pdfFetches
    /\ dash' = withPdf([dash.pdf EXCEPT
          !.pdfFetches = @ \ {g},
          !.button = IF ok THEN [@ EXCEPT !.label = "PDF Downloaded!"]
                     ELSE [label |-> "Error, try again", disabled |-> FALSE],
          !.labelTimers = @ \cup {[id |-> g.id, originalText |-> g.originalText]},
          !.requested = 0,
          !.downloaded = IF ok THEN g.calculation ELSE 0])
    /\ UNCHANGED dashFrame

\* the 2000 ms timer restores the label read at the click and enables the button
LabelTimer(t) ==
    /\ DashLive
    /\ t \in dash.pdf.labelTimers
    /\ dash' = withPdf([dash.pdf EXCEPT
          !.labelTimers = @ \ {t},
          !.button = [label |-> t.originalText, disabled |-> FALSE],
          !.requested = 0, !.downloaded = 0])
    /\ UNCHANGED dashFrame

InitPdf ==
    /\ InitDash
    /\ pageScript = "dashboard-v2.js"

NextPdf ==
    \/ \E f \in dash.fetches, answer \in {"list", "error"} : ListServe(f, answer)
    \/ \E f \in dash.fetches : ListResponse(f)
    \/ \E id \in CalculationIds : ConvertToPDF(id)
    \/ \E f \in dash.pdf.details, answer \in {"details", "error"} :
          DetailResponse(f, answer)
    \/ CloseModal
    \/ DownloadClick
    \/ \E g \in dash.pdf.pdfFetches, ok \in BOOLEAN : PdfResponse(g, ok)
    \/ \E t \in dash.pdf.labelTimers : LabelTimer(t)

SpecPdf == InitPdf /\ [][NextPdf]_vars

(***************************************************************************)
(* Export specification: the editor of the drawing UI has loaded and the   *)
(* recogniser exports markup made of up to MaxPieces pieces: a symbol, a   *)
(* line break, an aligned environment, an align* environment.              *)
(***************************************************************************)
MaxPieces == 3
LineBreak == <<"\\", "\\">>
ExportPieces ==
    {<<"x">>, LineBreak,
     BeginAligned \o <<"x">> \o EndAligned,
     BeginAlignStar \o <<"x">> \o EndAlignStar}

\* the concatenation of a sequence of strings
RECURSIVE Concat(_)
Concat(pieces) ==
    IF pieces = <<>> THEN <<>> ELSE Head(pieces) \o Concat(Tail(pieces))

RecogniserExports ==
    {Concat(pieces) : pieces \in UNION {[1..n -> ExportPieces] : n \in 1..MaxPieces}}

NextExport ==
    \/ EditorLoaded(TRUE)
    \/ PollTick
    \/ \E latexExport \in RecogniserExports :
          draw.lastExport = <<>> /\ Exported(latexExport)

SpecExport == InitCalc /\ [][NextExport]_vars

(***************************************************************************)
(* Solve specification: a visitor who is not signed in uses both modes and *)
(* sends up to two solve requests, so that a solve can follow a completed  *)
(* one.                                                                    *)
(***************************************************************************)
MaxSolvesInRow == 2

\* one answer of each kind the solve handlers distinguish
SolveAnswers ==
    {resp \in SolveResponses :
        \/ resp.status = "network-error"
        \/ resp.status = "2xx" /\ resp.body = "json"
              /\ resp.data.solution = Str(<<"5">>)}

InitSolve ==
    /\ InitCalc
    /\ localStorage = EmptyStorage
    /\ iinkLoaded

NextSolve ==
    \/ \E mode \in ModeButtons : SwitchMode(mode)
    \/ EditorLoaded(TRUE)
    \/ PollTick
    \/ \E latexExport \in DrawExports : Exported(latexExport)
    \/ DrawSolveClickUpTo(MaxSolvesInRow)
    \/ \E i \in DOMAIN solves, resp \in SolveAnswers : DrawSolveResponse(i, resp)
    \/ \E value \in TextInputs : TextInput(value)
    \/ TextSolveUpTo(MaxSolvesInRow)
    \/ \E i \in DOMAIN solves, resp \in SolveAnswers : TextSolveResponse(i, resp)

SpecSolve == InitSolve /\ [][NextSolve]_vars

(***************************************************************************)
(* Properties.                                                             *)
(***************************************************************************)
\* a step in which the submit handler processes the response of its fetch
AuthResponseStep == lastEvent'.op = "authResponse" /\ authRequests' # authRequests

\* C1: every load of the dashboard or of the calculator that finds no stored
\* session (authToken or currentUser missing from browser storage) ends its
\* initialisation with a redirect to the sign-in view.
C1_NoSessionLoadRedirects ==
    (lastEvent.op \in {"loadDashboard", "loadCalculator"} /\ ~lastEvent.hadSession)
        => redirect \in SignInViews

\* the calculator loaded with the cookie still set and storage empty, and stays
C1_Witness ==
    /\ lastEvent.op = "loadCalculator" /\ ~lastEvent.hadSession
    /\ cookie.present /\ localStorage = EmptyStorage
    /\ redirect = None

\* C2: after logout() on any page, storage holds neither key, the cookie is
\* cleared and the page redirects to the sign-in view; from then on, until a
\* new sign-in, every load of the dashboard or calculator redirects there too.
C2_LogoutEndsSession ==
    /\ lastEvent.op = "logout" =>
          /\ localStorage = EmptyStorage
          /\ ~cookie.present
          /\ redirect \in SignInViews
    /\ (loggedOut /\ lastEvent.op \in {"loadDashboard", "loadCalculator"})
          => redirect \in SignInViews

\* a logout on the dashboard that left the cookie in place
C2_Witness ==
    /\ lastEvent.op = "logout" /\ page = "dashboard"
    /\ localStorage = EmptyStorage /\ cookie.present /\ cookie.value \in Tokens

C4_FailureLeavesSession ==
    [][(AuthResponseStep /\ ~(lastEvent'.status = "2xx" /\ lastEvent'.body = "json"))
          => /\ UNCHANGED <<localStorage, cookie, redirect>>
             /\ \E el \in ErrorElements :
                   /\ formErrors'[el] # ""
                   /\ lastEvent'.error \in ErrorTexts
                         => formErrors'[el] = lastEvent'.error]_vars

\* a rejected submission whose response carried an error text
C4_Witness ==
    /\ lastEvent.op = "authResponse" /\ lastEvent.status = "non2xx"
    /\ lastEvent.error \in ErrorTexts
    /\ \E el \in ErrorElements : formErrors[el] = lastEvent.error
    /\ localStorage = EmptyStorage /\ ~cookie.present /\ redirect = None

\* the page shows exactly the UI of the current mode, and only its button is active
C5_ModeShown ==
    CalcLive => /\ currentMode \in ModeButtons
                /\ mainContent = currentMode
                /\ activeButtons = {currentMode}

\* C5: the input mode is a two-state machine, draw or text, initially draw;
\* it changes only in switchMode run for the other mode's button; switchMode
\* for the current mode changes nothing; at all times the main content holds
\* the current mode's UI only and only that mode's button is active.
C5_InputModeMachine ==
    /\ currentMode = "draw"
    /\ []C5_ModeShown
    /\ [][/\ currentMode' # currentMode
             => \E mode \in ModeButtons \ {currentMode} :
                   SwitchMode(mode) /\ currentMode' = mode
          /\ SwitchMode(currentMode)
             => UNCHANGED <<currentMode, mainContent, activeButtons, draw, text,
                            currentLatex, solves, solutionArea>>]_vars

\* the page went to text mode, took input there, and is back in draw mode
C5_Witness ==
    /\ CalcLive /\ currentMode = "draw" /\ staleInput # <<>>
    /\ mainContent = "draw" /\ activeButtons = {"draw"}

\* C6: every save request is sent after a successful solve response that
\* contains a solution, and its body carries a non-empty latex_input and a
\* solution that both come from that solve; automatic and manual saves alike.
C6_SavesComeFromSolve ==
    \A p \in posted :
        /\ p.origin \in DOMAIN solves
        /\ solves[p.origin].status = "succeeded"
        /\ SolutionTruthy(solves[p.origin].data.solution)
        /\ p.body.latex_input # <<>>
        /\ p.body.latex_input = solves[p.origin].latex
        /\ IF p.body.solution.source = "response"
           THEN /\ p.body.solution.text # <<>>
                /\ p.body.solution.text = solutionText(solves[p.origin].data.solution)
           ELSE /\ p.body.solution.area.req = p.origin
                /\ p.body.solution.area.kind \in {"katex", "raw"}

\* a manual save sent from the error display of a failed solve
C6_Witness ==
    \E p \in posted :
        /\ p.caller = "manual" /\ p.origin \in DOMAIN solves
        /\ solves[p.origin].status = "failed"
        /\ p.body.solution.area.header = "Error"

\* C7: a solve that succeeded (2xx, no error field) on an authenticated page
\* has, once its auto-save delay has run, exactly one automatic save, titled
\* 'OperationType - timestamp'; in draw mode and in text mode.
C7_OneAutoSavePerSolve ==
    /\ \A i \in DOMAIN solves :
          (solves[i].status = "succeeded" /\ winIsAuthenticated = "true"
              /\ i \notin timers)
          => solves[i].autoSaves = 1
    /\ \A p \in posted :
          p.caller = "auto" =>
             p.body.title = [kind |-> "generated",
                             prefix |-> Capitalize(p.body.operation_type),
                             separator |-> " - ", timestamp |-> "now"]

\* an authenticated draw-mode solve that succeeded with a solution, unsaved
C7_Witness ==
    \E i \in DOMAIN solves :
        /\ solves[i].mode = "draw" /\ solves[i].status = "succeeded"
        /\ SolutionTruthy(solves[i].data.solution)
        /\ winIsAuthenticated = "true" /\ isAuthenticated
        /\ solves[i].autoSaves = 0 /\ timers = {}

\* C8: an automatic save opens neither the title prompt nor an alert; a
\* manual save that sends a request has prompted for the title first.
C8_AutoSilentManualPrompts ==
    /\ \A d \in dialogs : d.caller # "auto"
    /\ \A p \in posted : p.caller = "manual" => p.prompted

\* how the claim C9 renders one solution of a list
ClaimedItem(item) == IF Includes(item, <<"=">>) THEN item ELSE XEquals \o item

\* C9: a list of two or more solutions is rendered joined by ', \; ': as they
\* are when they carry '=', each prefixed 'x = ' when they lack it; a solution
\* that contains '=' is never prefixed.
C9_ListRendering ==
    \A i \in DOMAIN solves :
        (solves[i].status = "succeeded" /\ solutionArea.req = i
            /\ solves[i].data.solution.kind = "array"
            /\ Len(solves[i].data.solution.items) > 1)
        => LET items == solves[i].data.solution.items
           IN  /\ solutionArea.text =
                     Join([k \in 1..Len(items) |-> ClaimedItem(items[k])],
                          SolutionSeparator)
               /\ \A k \in 1..Len(items) :
                     Includes(items[k], <<"=">>)
                        => ~Includes(solutionArea.text, XEquals \o items[k])

\* C10: a solve request that failed (non-2xx, network error, unparsable body)
\* leaves the error display (header 'Error' and the message) where its result
\* would be, is never rendered as a solution, and no save is issued for it.
C10_FailedSolveShowsError ==
    \A i \in DOMAIN solves :
        solves[i].status = "failed" =>
           /\ solutionArea.req = i =>
                 /\ solutionArea.header = "Error"
                 /\ solutionArea.kind = "message"
                 /\ solutionArea.message # ""
           /\ i \notin timers
           /\ solves[i].autoSaves = 0
           /\ \A p \in posted : p.origin # i

\* the solve button of the UI that request i was started from
SolveButtonOf(i, d, t) == IF solves[i].mode = "draw" THEN d ELSE t

\* C11: every solve request completes the action that started it: whatever
\* the response (success, error field, non-2xx, network failure, unparsable
\* body), the step that processes it leaves the request settled and the
\* button of the UI it was started from enabled and labelled 'Solve'; a
\* request whose UI was replaced by a mode switch leaves the buttons of the
\* page as they are.
C11_SolveCompletes ==
    [][\A i \in DOMAIN solves :
          (/\ solves[i].status = "pending"
           /\ Len(solves') = Len(solves)
           /\ solves'[i].status # "pending")
          => IF solves[i].stale
             THEN draw' = draw /\ text' = text
             ELSE /\ ~SolveButtonOf(i, draw', text').solveDisabled
                  /\ SolveButtonOf(i, draw', text').solveLabel = "Solve"]_vars

\* a text solve that failed, with the error shown and the button usable again
C11_Witness ==
    /\ CalcLive /\ mainContent = "text"
    /\ \E i \in DOMAIN solves :
          /\ solves[i].mode = "text" /\ solves[i].status = "failed"
          /\ ~solves[i].stale
          /\ solutionArea.header = "Error" /\ solutionArea.req = i
    /\ ~text.solveDisabled /\ text.solveLabel = "Solve"

\* C12: while a solve request is pending, the button that started it stays
\* disabled, whatever the user does meanwhile (typing, recogniser exports,
\* operation-type changes).
C12_PendingKeepsButtonDisabled ==
    CalcLive =>
       \A i \in DOMAIN solves :
          (solves[i].status = "pending" /\ ~solves[i].stale)
             => SolveButtonOf(i, draw, text).solveDisabled

\* a text solve is in flight and its button is enabled again, still labelled
\* 'Solving...'
C12_Witness ==
    /\ CalcLive /\ mainContent = "text"
    /\ \E i \in DOMAIN solves :
          solves[i].mode = "text" /\ solves[i].status = "pending" /\ ~solves[i].stale
    /\ ~text.solveDisabled /\ text.solveLabel = "Solving..."

\* C13: in drawing mode the solve button is enabled only if the most recent
\* export carried non-empty markup (it is disabled before any export).
C13_SolveEnabledOnlyWithOutput ==
    (CalcLive /\ mainContent = "draw")
        => (~draw.solveDisabled => draw.lastExport # <<>>)

\* the last export carried no markup, the placeholder is shown, and the solve
\* button is enabled on the markup of an earlier export
C13_Witness ==
    /\ CalcLive /\ mainContent = "draw"
    /\ draw.lastExport = <<>> /\ draw.shown = "placeholder"
    /\ draw.latex = <<"x">> /\ ~draw.solveDisabled

\* C17: when katex.render throws, the raw markup is displayed in place of
\* the rendering: in the drawing preview, in the text preview and in the
\* solution.
C17_RenderFailureShowsRaw ==
    CalcLive =>
       /\ (/\ mainContent = "draw" /\ draw.lastExport # <<>>
           /\ draw.shown # "message"
           /\ katexRenderThrows(draw.latex)) => draw.shown = "raw"
       /\ (/\ mainContent = "text" /\ text.preview \notin {"none", "placeholder"}
           /\ katexRenderThrows(currentLatex)) => text.preview = "raw"
       /\ (solutionArea.kind \in {"katex", "raw"}
              /\ katexRenderThrows(solutionArea.text)) => solutionArea.kind = "raw"

\* the text preview shows the error notice for markup the renderer rejects
C17_Witness ==
    /\ CalcLive /\ mainContent = "text"
    /\ text.input = <<"x", "^">> /\ katexRenderThrows(currentLatex)
    /\ text.preview = "error"

\* the markup the claim gives for the Laplace example: t^{2} e^{-3 t}
LaplaceExampleLatex ==
    <<"t", "^", "{", "2", "}", " ", "e", "^", "{", "-", "3", " ", "t", "}">>

\* C18: the converter turns t^2e^(-3t) into t^{2} e^{-3 t}, and an exponent
\* written ^(E) or ^-(E) comes out with its parentheses removed and its
\* content, the sign included, in one pair of braces (a digit directly
\* followed by a letter inside it separated by a space).
C18_ExponentsBraced ==
    (CalcLive /\ mainContent = "text") =>
        /\ text.input = LaplaceExample => currentLatex = LaplaceExampleLatex
        /\ \A sign \in ExponentSigns, body \in ExponentBodies :
              text.input = ExponentInput(sign, body) =>
                 currentLatex = <<"e", "^", "{">> \o sign
                                   \o SpaceAfterNumber(body, 1) \o <<"}">>

\* e^-(3t) has been typed and converted
C18_Witness ==
    /\ CalcLive /\ mainContent = "text"
    /\ text.input = ExponentInput(<<"-">>, <<"3", "t">>)
    /\ currentLatex = <<"e", "^", "{", "(", "3", " ", "t", "}">>

\* " \text{ on } [a,b]"
OnText == <<" ", "\\", "t", "e", "x", "t", "{", " ", "o", "n", " ", "}", " ">>
OnClause(a, b) == OnText \o <<"[">> \o a \o <<",">> \o b \o <<"]">>

\* C19: with the operation type fourier an input ending with expr[a,b] is
\* converted to the converted expr followed by " \text{ on } [a,b]" with the
\* bounds of the converted text; with solve or laplace, or without such an
\* ending, the converted text has no domain clause.
C19_DomainClause ==
    (CalcLive /\ mainContent = "text") =>
        /\ \A prefix \in LinePrefixes, expr \in DomainExprs,
              a \in DomainBounds, b \in DomainBounds :
              (/\ operationType = "fourier"
               /\ text.input = DomainInput(prefix, expr, a, b))
                 => currentLatex =
                       processInputToLatex(expr, "solve")
                          \o OnClause(processInputToLatex(a, "solve"),
                                      processInputToLatex(b, "solve"))
        /\ (operationType # "fourier" \/ text.input \notin DomainInputs)
              => ~Includes(currentLatex, OnText)

\* the Fourier example has been typed with fourier selected
C19_Witness ==
    /\ CalcLive /\ mainContent = "text"
    /\ operationType = "fourier"
    /\ text.input = FourierExample
    /\ currentLatex = <<"x", "^", "{", "2", "}">>
                         \o OnClause(<<"-", "3", ".", "1", "4">>,
                                     <<"3", ".", "1", "4">>)

\* a token is stored with a profile that JSON.parse rejects
InvalidStoredProfile(ls) ==
    /\ Truthy(ls.authToken) /\ Truthy(ls.currentUser)
    /\ JSONparse(ls.currentUser) = SyntaxError

\* C20: a load of the dashboard or of the calculator that finds a stored token
\* with an unparsable stored profile clears token, profile and cookie and
\* redirects to the sign-in view, with isAuthenticated false.
C20_InvalidProfileClearsSession ==
    [][(/\ lastEvent'.op \in {"loadDashboard", "loadCalculator"}
        /\ InvalidStoredProfile(localStorage))
          => /\ localStorage' = EmptyStorage
             /\ ~cookie'.present
             /\ redirect' \in SignInViews
             /\ ~isAuthenticated']_vars

\* the dashboard loaded on an unparsable profile, which is still stored
C20_Witness ==
    /\ lastEvent.op = "loadDashboard"
    /\ InvalidStoredProfile(localStorage)
    /\ redirect = "/login"

\* C14: once the DELETE of a calculation has succeeded, the calculation is
\* not displayed whenever no list request and no refresh timer is outstanding,
\* also after a reload, whatever the order of the list responses.
C14_DeletedCardGone ==
    DashLive =>
        \A id \in dash.removed :
            (dash.fetches = {} /\ dash.fadeTimers = 0)
               => id \notin visibleCards(dash)

\* a deleted calculation is displayed and nothing is outstanding
C14_Witness ==
    /\ DashLive
    /\ dash.removed # {} /\ dash.stored # CalculationIds
    /\ dash.fetches = {} /\ dash.fadeTimers = 0 /\ dash.deletes = {}
    /\ dash.removed \cap visibleCards(dash) # {}

\* sortCalculations(list, option) is a permutation of list in the order of
\* the option
SortedCopy(list, option) ==
    LET sorted == sortCalculations(list, option)
    IN  /\ Len(sorted) = Len(list)
        /\ {sorted[k] : k \in DOMAIN sorted} = {list[k] : k \in DOMAIN list}
        /\ \A i, j \in DOMAIN sorted :
              i < j =>
                 /\ option = "date-desc" => sorted[i].created_at >= sorted[j].created_at
                 /\ option = "date-asc" => sorted[i].created_at <= sorted[j].created_at
                 /\ option = "type" =>
                       localeCompare(sorted[i].operation_type,
                                     sorted[j].operation_type) <= 0
        /\ option \notin SortOptions => sorted = list

\* a step in which the later dashboard script renders the list response f
RendersList(f) ==
    /\ DashLive /\ pageScript = "dashboard-v2.js"
    /\ f.answer = "list"
    /\ dash'.fetches = dash.fetches \ {f}
    /\ dash'.sent = dash.sent

\* C15: sortCalculations returns a permutation of the list it is given:
\* newest first for date-desc, oldest first for date-asc, alphabetical by
\* operation_type for type, the received order for any other option; the
\* list is rendered in that order and the total-calculations counter is set
\* to the number of calculations fetched.
C15_SortAndCount ==
    /\ [](\A f \in dash.fetches :
             f.answer = "list" =>
                \A option \in SortOptions \cup {"received"} :
                   SortedCopy(f.calculations, option))
    /\ []((DashLive /\ pageScript = "dashboard-v2.js"
             /\ dash.kind \in {"cards", "empty"})
            => dash.total = Len(dash.shown))
    /\ [][\A f \in dash.fetches :
             RendersList(f) =>
                /\ dash'.shown = cardsOf(sortCalculations(f.calculations, f.sortValue))
                /\ dash'.total = Len(f.calculations)]_vars

\* the three calculations are shown by type, with the counter at three
C15_Witness ==
    /\ DashLive /\ pageScript = "dashboard-v2.js"
    /\ dash.sortValue = "type"
    /\ dash.kind = "cards" /\ dash.shown = <<2, 3, 1>>
    /\ dash.total = 3

\* a step in which the response of solve request i is processed as a failure
SolveFails(i) ==
    /\ i \in DOMAIN solves' /\ solves[i].status = "pending"
    /\ solves'[i].status = "failed"

\* C16: no request is retried and every failed request ends in a message the
\* user sees: the step that processes a failed solve response sends nothing
\* and leaves the error display; the step that settles a save request sends
\* nothing and either shows an alert or, for a stored automatic save, the
\* label 'Saved!'; no handler sends more than one request.
C16_NoRetryFailuresReported ==
    [][/\ Len(solves') <= Len(solves) + 1
       /\ Cardinality(posted') <= 1
       /\ \A i \in DOMAIN solves :
             SolveFails(i) =>
                /\ Len(solves') = Len(solves) /\ saves' = saves /\ timers' = timers
                /\ solutionArea'.header = "Error" /\ solutionArea'.message # ""
       /\ \A sv \in saves :
             sv \notin saves' =>
                /\ saves' = saves \ {sv} /\ solves' = solves /\ timers' = timers
                /\ \/ \E d \in dialogs' : d.dialog = "alert"
                   \/ saveButton'.label = "Saved!" /\ saveButton' # saveButton]_vars

\* an automatic save is in flight while the user is signed in
C16_Witness ==
    /\ CalcLive /\ isAuthenticated
    /\ \E sv \in saves : sv.caller = "auto"

\* the name of an environment starts at position i of s: "{align" after
\* \begin or \end
AlignNameAt(s, i) == MatchesAt(s, i, <<"{", "a", "l", "i", "g", "n">>)

\* C21: the markup cleanLatex returns for a recogniser export contains no
\* align* environment name, and every alignment environment name in it is
\* exactly 'aligned', with or without a line break in the export and for
\* any number of alignment environments.
C21_AlignmentRenamed ==
    (CalcLive /\ mainContent = "draw" /\ draw.lastExport # <<>>) =>
        /\ draw.latex = cleanLatex(draw.lastExport)
        /\ ~Includes(draw.latex, <<"a", "l", "i", "g", "n", "*">>)
        /\ \A i \in 1..Len(draw.latex) :
              AlignNameAt(draw.latex, i) =>
                 MatchesAt(draw.latex, i, <<"{", "a", "l", "i", "g", "n", "e", "d", "}">>)

\* an aligned environment was exported without a line break
C21_Witness ==
    /\ CalcLive /\ mainContent = "draw"
    /\ draw.lastExport = BeginAligned \o <<"x">> \o EndAligned
    /\ draw.latex = <<"\\", "b", "e", "g", "i", "n", "{", "a", "l", "i", "g", "n",
                      "e", "d", "d", "}", "x", "\\", "e", "n", "d", "{", "a", "l",
                      "i", "g", "n", "e", "d", "d", "}">>

\* the password has at least 8 characters with an uppercase letter, a
\* lowercase letter, a digit and a special character
PasswordAccepted(password) ==
    /\ Len(password) >= 8
    /\ Has(password, UpperCase) /\ Has(password, LowerCase)
    /\ Has(password, Digits) /\ Has(password, SpecialChars)

AnsweredRequests == authRequests \ authRequests'

\* C23: a response step writes storage or cookie only with the token and user
\* of a successful response to a login request, and a successful response to
\* a login request is handled as a login, also when the form is toggled
\* between Sign In and Create Account while the request is in flight.
C23_OnlyLoginCreatesSession ==
    [][AuthResponseStep =>
          \A r \in AnsweredRequests :
             /\ (localStorage' # localStorage \/ cookie' # cookie)
                   => /\ r.request.endpoint = "/api/auth/login"
                      /\ lastEvent'.status = "2xx"
                      /\ lastEvent'.token \in Tokens /\ lastEvent'.user \in Users
                      /\ localStorage'.authToken = lastEvent'.token
                      /\ localStorage'.currentUser = JSONstringify(lastEvent'.user)
                      /\ cookie'.present /\ cookie'.value = lastEvent'.token
             /\ (r.request.endpoint = "/api/auth/login" /\ lastEvent'.status = "2xx"
                    /\ lastEvent'.body = "json")
                   => lastEvent'.mode = "login"
             /\ (r.request.endpoint = "/api/auth/register")
                   => UNCHANGED <<localStorage, cookie, redirect>>]_vars

\* the response to a register request, which carries no token, has been
\* processed in Sign In mode and stored as a session
C23_Witness ==
    /\ page = "auth"
    /\ lastEvent.op = "authResponse" /\ lastEvent.status = "2xx"
    /\ lastEvent.mode = "login" /\ lastEvent.token = Undefined
    /\ localStorage.authToken = "undefined"
    /\ cookie.present /\ cookie.value = ""
    /\ redirect = "/"

\* C24: the latex_input and the operation_type of an automatic save are those
\* of the solve request whose response is saved, whatever the user edits or
\* selects between the solve and the delayed save.
C24_AutoSaveMatchesSolve ==
    \A p \in posted :
        p.caller = "auto" =>
            /\ p.body.latex_input = solves[p.origin].latex
            /\ p.body.operation_type = solves[p.origin].operation_type

\* an automatic save has been sent for a text-mode solve
C24_Witness ==
    \E p \in posted :
        /\ p.caller = "auto" /\ solves[p.origin].mode = "text"
        /\ p.body.latex_input # solves[p.origin].latex

\* the list requests of this document whose response has been processed
ProcessedFetches == (1..dash.sent) \ {f.id : f \in dash.fetches}

\* a step in which loadSavedCalculations continues with the response of f
ProcessesList(f) ==
    /\ DashLive /\ pageScript = "dashboard-v2.js"
    /\ dash'.fetches = dash.fetches \ {f}
    /\ dash'.sent = dash.sent

\* the cards shown are in the order of the selected sort option
ShownInSelectedOrder ==
    dash.shown = cardsOf(sortCalculations(
                    calculationsOf({dash.shown[k] : k \in DOMAIN dash.shown}),
                    dash.sortValue))

\* C25: once every list response has been processed the dashboard shows the
\* response to the list request issued last, in the order of the selected
\* sort option; the response to an earlier request never replaces what the
\* response to a later request has shown.
C25_LatestListShown ==
    /\ []((DashLive /\ pageScript = "dashboard-v2.js" /\ dash.fetches = {}
             /\ dash.kind = "cards")
            => ShownInSelectedOrder)
    /\ [][\A f \in dash.fetches :
             (ProcessesList(f) /\ \E j \in ProcessedFetches : j > f.id)
                => /\ dash'.shown = dash.shown
                   /\ dash'.kind = dash.kind]_vars

\* no list request is outstanding, "type" is selected and the cards are in
\* another order
C25_Witness ==
    /\ DashLive /\ pageScript = "dashboard-v2.js"
    /\ dash.fetches = {} /\ dash.fadeTimers = 0 /\ dash.deletes = {}
    /\ dash.kind = "cards" /\ dash.sortValue = "type"
    /\ ~ShownInSelectedOrder

\* what window.isAuthenticated holds when it mirrors the flag of user-auth.js
Mirror(flag) == IF flag THEN "true" ELSE "false"

\* C26: on the calculator page isAuthenticated is true only while authToken
\* and currentUser are both non-null, window.isAuthenticated equals it (also
\* after logout), and a save request is sent only while it is true, with the
\* header Authorization: Bearer <authToken>.
C26_AuthFlagsAgree ==
    CalcLive =>
        /\ isAuthenticated => (authToken # None /\ currentUser # None)
        /\ winIsAuthenticated = Mirror(isAuthenticated)
        /\ \A p \in posted :
              /\ isAuthenticated
              /\ authToken \in Tokens
              /\ p.authorization = <<"Bearer ", authToken>>

\* after a logout on the calculator page window.isAuthenticated is still true
C26_Witness ==
    /\ CalcLive /\ lastEvent.op = "logout"
    /\ ~isAuthenticated /\ authToken = None /\ currentUser = None
    /\ winIsAuthenticated = "true"

\* C27: while the text UI is shown, currentLatex is the conversion of the
\* value of the text input under the selected operation type, and empty when
\* the input is blank, after any input events, operation-type changes and
\* mode switches away and back.
C27_LatexFollowsInput ==
    (CalcLive /\ mainContent = "text")
        => currentLatex = renderPreview(text.input, operationType)

\* the text UI has been created again with an empty input while currentLatex
\* still holds the markup typed into the previous text UI
C27_Witness ==
    /\ CalcLive /\ mainContent = "text"
    /\ text.input = <<>> /\ staleInput # <<>>
    /\ currentLatex # <<>>

\* C28: no solve request is sent with empty or blank markup, from the drawing
\* UI or from the text UI, after any input events, export events, completed
\* solves and mode switches.
C28_NoBlankSolve ==
    \A i \in DOMAIN solves : ~IsBlank(solves[i].latex)

\* a solve request with blank markup has been sent from the drawing UI
C28_Witness ==
    \E i \in DOMAIN solves :
        /\ solves[i].mode = "draw" /\ solves[i].status = "pending"
        /\ solves[i].latex # <<>> /\ IsBlank(solves[i].latex)

\* the editor a running polling timer waits for can still arrive: it is set,
\* a load is pending, or the library is there for the load of a later init()
EditorCanArrive ==
    draw.editorSet \/ draw.loadingCur \/ draw.loadingOld > 0 \/ iinkLoaded

\* C30: the 100 ms polling timer of every DrawMode.init() stops in the end,
\* whether the editor loads, fails to load or the library is missing, so
\* no timer runs that has nothing left to wait for; and listeners are only
\* attached while the drawing UI is the one in the page.
C30_PollingStops ==
    /\ []((CalcLive /\ draw.polling > 0) => EditorCanArrive)
    /\ [][draw'.listeners > draw.listeners => mainContent = "draw"]_vars

\* the library is missing and the polling timer of an init() is running
C30_Witness ==
    /\ CalcLive /\ mainContent = "draw"
    /\ ~iinkLoaded /\ ~draw.editorSet /\ draw.polling > 0
    /\ lastEvent.op = "loadCalculator"

\* C29: the Download PDF button requests the PDF of the calculation whose
\* preview is shown; while the details of a newly opened calculation are
\* pending or have failed it does not download a calculation opened before;
\* and once the detail responses of two exports are processed, preview and
\* button refer to the calculation opened last.
C29_DownloadsShownCalculation ==
    (DashLive /\ pageScript = "dashboard-v2.js") =>
        /\ dash.pdf.requested # 0 =>
              /\ dash.pdf.preview = [kind |-> "details",
                                     calculation |-> dash.pdf.requested]
              /\ dash.pdf.requested = dash.pdf.opened
        /\ (dash.pdf.details = {} /\ dash.pdf.preview.kind = "details") =>
              /\ dash.pdf.preview.calculation = dash.pdf.opened
              /\ dash.pdf.onclick = dash.pdf.opened

\* the PDF of the calculation opened before is requested while the details
\* of the one opened last are loading
C29_Witness ==
    /\ DashLive /\ dash.pdf.modal
    /\ dash.pdf.preview.kind = "loading"
    /\ dash.pdf.requested # 0 /\ dash.pdf.requested # dash.pdf.opened

====
